---- MODULE Spec2Model ----
EXTENDS Integers, Sequences, FiniteSets, TLC

\* ------------------------------------------------------------------
\* Bounds of the model
\* ------------------------------------------------------------------
\* lines a subprocess writes to stdout in one run
MaxLines == 2

\* stdout lines read in one start_process call, over all its attempts
MaxProcLines == 2

\* add_task_log calls made one after the other, starting without the key
MaxSeqAppends == 1003

\* items (text items and {{key}} tokens) of a template
MaxTemplate == 3

\* add_task_log calls made by concurrent threads on top of the entries
\* the task already has
MaxConcAppends == 3

\* ------------------------------------------------------------------
\* State
\* ------------------------------------------------------------------
VARIABLES
    \* --- ExecutionService.execute_task (v2/services/execution_service.py)
    agent_name,        \* normalised agent of the task
    capability,        \* normalised capability of the task
    agent_dir_exists,  \* prompts/{agent}/{capability} exists
    agent_files,       \* *.md files present in prompts/{agent}/{capability}
    target_files,      \* files present in prompts/targets/{target}
    session_manager,   \* FALSE when __init__ left self.session_manager = None
    pc,                \* position of the execute_task call
    prompt_sequence,   \* the sequence being executed
    i,                 \* 1-based index of the current step
    results,           \* prompt results recorded so far
    overall_status,
    ret,               \* the record execute_task returned, NoRecord before
    executed,          \* steps for which _execute_prompt was called
    proc,              \* per step: the subprocess started for it
    \* locals of the running _execute_with_claude call
    stdout_open,       \* the process holds the write end of its stdout pipe
    stderr_open,       \* the process holds the write end of its stderr pipe
    written,           \* lines the process has written to stdout
    pipe,              \* stdout lines written and not yet read
    reader,            \* the output thread
    message_queue,     \* queue.Queue() of the call
    output_lines,      \* number of collected output lines
    deadline_passed,   \* time.time() - start_time > timeout
    return_code,       \* process.poll(): {} for None, else {code}
    term_sent,         \* process.terminate() has signalled the process
    timed_out,         \* the poll loop ended by the timeout branch
    \* --- ProcessManager.start_process (app.py) and
    \* --- EnhancedProcessManager.start_process (claude_auth.py)
    enhanced,          \* app_state.enhanced_process_manager is set
    ppc,               \* position of the run_process thread
    stage,             \* position inside the reaping code
    retry_count,
    attempts,          \* calls of start_claude_process in this start_process
    sleeps,            \* the backoff sleeps: after which attempt, how long
    pending_auth,      \* handle_auth_error recovered and no launch followed yet
    process,           \* the subprocess the thread holds
    lines_read,        \* stdout lines read in this call
    app_queue,         \* app_state.message_queue
    \* --- ExecutionService.add_task_log / get_task_logs, one task key
    log_threads,       \* the threads that call add_task_log
    task_logs,         \* self.task_logs[task_key]: present or not, and the list
    appended,          \* entries appended so far; the n-th append adds entry n
    append_limit,      \* appends explored in this run
    lpc,               \* per thread: position inside add_task_log
    lstale,            \* per thread: the list it loaded is no longer in the dict
    ltmp,              \* per thread: the slice computed at line 566
    \* --- ExecutionService._substitute_variables
    tpl_content,       \* the template: a sequence of text items and {{key}} tokens
    tpl_context,       \* the context mapping
    tpl_result,        \* the returned content
    tpl_pc,            \* "call" before the call, "done" after it
    \* --- PromptOrchestrator.get_prompt_sequence / validate_orchestration
    o_agent,           \* agent_key
    o_cap,             \* capability_key
    o_dir_exists,      \* prompts/{agent}/{capability} exists
    o_afiles,          \* *.md files present in prompts/{agent}/{capability}
    o_tfiles,          \* per target: files present in prompts/targets/{target}
    o_call,            \* the call: get with a target, validate with targets
    o_result,          \* what the call returned
    o_pc,              \* "call" before the call, "done" after it
    \* --- ClaudeSessionManagerV2 (v2/services/claude_auth_v2.py)
    auth_now,           \* datetime.now(), in hours
    last_refresh,       \* auth_manager.last_refresh: {} for None, else {time}
    session_start_time, \* {} for None, else {time}
    current_session,    \* {} for None, else {launch time of the process}
    auth_call,          \* the last call of the session manager and its outcome
    \* --- ClaudeAuthManagerV2 refresh daemon (v2/services/claude_auth_v2.py)
    running,            \* self.running
    refresh_thread,     \* "none" for None, else the position of _refresh_loop
    sleep_left,         \* seconds left of the time.sleep of the loop
    daemon_caller,      \* the caller of stop_refresh_daemon: "idle" or "joining"
    stop_set_flag,      \* stop_refresh_daemon set running to False since the start
    after_error,        \* the last refresh of the loop raised
    restarted,          \* start_refresh_daemon was called after a stop returned
    \* --- the reducers of the CLI's stdout lines (process_output,
    \* --- process_claude_output, EnhancedProcessManager.start_process)
    r_impl,             \* which of the three reducers runs
    r_read,             \* lines read so far
    r_line,             \* the line read last
    r_emitted,          \* events put on the message queue for that line
    r_output,           \* texts appended to output_lines for that line
    r_stopped,          \* the loop over stdout was left by an exception or break
    \* --- what execute_task leaves behind (v2/services/execution_service.py)
    output_dir,         \* the files of the task output directory
    executions,         \* self.executions: execution id -> record
    execution_logs,     \* self.execution_logs
    history,            \* what the last get_execution_history call returned
    \* --- the jobs file (v2/services/jobs_service.py)
    job,                \* the job stored in the jobs file
    job_ret,            \* what the last update call returned
    job_calls,          \* update calls made so far
    \* --- the sources service (v2/services/sources_service.py)
    sources,            \* self.metadata['sources']: source id -> source data
    source_files,       \* ids of the sources whose directory is on disk
    metadata_file,      \* the sources written to sources_metadata.json last
    src_ret,            \* the last call and what it returned
    src_calls,          \* calls made so far
    \* --- the task log over one execute_task call (v2/services/execution_service.py)
    tl_pc,              \* position of the execute_task call
    tl_n,               \* len(prompt_sequence)
    tl_i,               \* 1-based index of the current step
    tl_status,          \* overall_status
    tl_log,             \* self.task_logs[task_key]
    tl_reader,          \* per step: the state of its output thread
    tl_lines,           \* per step: stdout lines read, len(output_lines)
    tl_results,         \* results
    tl_timed_out,       \* the poll loop of the current step ended by the timeout
    tl_ret,             \* what the call returned
    \* --- execute_task calls against the wall clock (v2/services/execution_service.py)
    wall_clock,         \* datetime.now().timestamp(), in ticks of the clock
    in_flight,          \* the calls started and not yet recorded
    \* --- the execute endpoint (v2/app.py) over the jobs file
    jobs_file,          \* the job in the jobs file: task index -> task status
    requests            \* per request: its position, task, copy of the job and result

execVars == <<agent_name, capability, agent_dir_exists, agent_files, target_files,
              session_manager, pc, prompt_sequence, i, results, overall_status,
              ret, executed, proc, stdout_open, stderr_open, written, pipe,
              reader, message_queue, output_lines, deadline_passed, return_code,
              term_sent, timed_out>>

procVars == <<enhanced, ppc, stage, retry_count, attempts, sleeps, pending_auth,
              process, lines_read, app_queue>>

logVars == <<log_threads, task_logs, appended, append_limit, lpc, lstale, ltmp>>

substVars == <<tpl_content, tpl_context, tpl_result, tpl_pc>>

orchVars == <<o_agent, o_cap, o_dir_exists, o_afiles, o_tfiles, o_call, o_result,
              o_pc>>

authVars == <<auth_now, last_refresh, session_start_time, current_session,
              auth_call>>

daemonVars == <<running, refresh_thread, sleep_left, daemon_caller, stop_set_flag,
                after_error, restarted>>

reduceVars == <<r_impl, r_read, r_line, r_emitted, r_output, r_stopped>>

storeVars == <<output_dir, executions, execution_logs, history>>

jobVars == <<job, job_ret, job_calls>>

sourceVars == <<sources, source_files, metadata_file, src_ret, src_calls>>

tlVars == <<tl_pc, tl_n, tl_i, tl_status, tl_log, tl_reader, tl_lines,
             tl_results, tl_timed_out, tl_ret>>

clockVars == <<wall_clock, in_flight>>

epVars == <<jobs_file, requests>>

\* the variables outside each part
notExecVars ==
    <<procVars, logVars, substVars, orchVars, authVars,
      daemonVars, reduceVars, storeVars,
      jobVars, sourceVars,
      tlVars,
      clockVars,
      epVars>>
notProcVars ==
    <<execVars, logVars, substVars, orchVars, authVars,
      daemonVars, reduceVars, storeVars,
      jobVars, sourceVars,
      tlVars,
      clockVars,
      epVars>>
notLogVars ==
    <<execVars, procVars, substVars, orchVars, authVars,
      daemonVars, reduceVars, storeVars,
      jobVars, sourceVars,
      tlVars,
      clockVars,
      epVars>>
notSubstVars ==
    <<execVars, procVars, logVars, orchVars, authVars,
      daemonVars, reduceVars, storeVars,
      jobVars, sourceVars,
      tlVars,
      clockVars,
      epVars>>
notOrchVars ==
    <<execVars, procVars, logVars, substVars, authVars,
      daemonVars, reduceVars, storeVars,
      jobVars, sourceVars,
      tlVars,
      clockVars,
      epVars>>
notAuthVars ==
    <<execVars, procVars, logVars, substVars, orchVars,
      daemonVars, reduceVars, storeVars,
      jobVars, sourceVars,
      tlVars,
      clockVars,
      epVars>>
notDaemonVars ==
    <<execVars, procVars, logVars, substVars, orchVars,
      authVars, reduceVars, storeVars,
      jobVars, sourceVars,
      tlVars,
      clockVars,
      epVars>>

notReduceVars ==
    <<execVars, procVars, logVars, substVars, orchVars,
      authVars, daemonVars, storeVars,
      jobVars, sourceVars,
      tlVars,
      clockVars,
      epVars>>
notStoreVars ==
    <<execVars, procVars, logVars, substVars, orchVars,
      authVars, daemonVars, reduceVars,
      jobVars, sourceVars,
      tlVars,
      clockVars,
      epVars>>

\* the variables outside an execute_task call and what it leaves behind
notExecStoreVars ==
    <<procVars, logVars, substVars, orchVars, authVars, daemonVars, reduceVars,
      jobVars, sourceVars,
      tlVars,
      clockVars,
      epVars>>

notJobVars ==
    <<execVars, procVars, logVars, substVars, orchVars,
      authVars, daemonVars, reduceVars, storeVars, sourceVars,
      tlVars,
      clockVars,
      epVars>>

notSourceVars ==
    <<execVars, procVars, logVars, substVars, orchVars,
      authVars, daemonVars, reduceVars, storeVars, jobVars,
      tlVars,
      clockVars,
      epVars>>

notTlVars ==
    <<execVars, procVars, logVars, substVars, orchVars, authVars,
      daemonVars, reduceVars, storeVars, jobVars, sourceVars,
      clockVars,
      epVars>>

\* the variables outside the execution store and the calls in flight
notStoreClockVars ==
    <<execVars, procVars, logVars, substVars, orchVars, authVars,
      daemonVars, reduceVars, jobVars, sourceVars,
      tlVars,
      epVars>>

\* the variables outside the task log and the execution store
notTlStoreVars ==
    <<execVars, procVars, logVars, substVars, orchVars, authVars,
      daemonVars, reduceVars, jobVars, sourceVars,
      clockVars,
      epVars>>

notClockVars ==
    <<execVars, procVars, logVars, substVars, orchVars, authVars,
      daemonVars, reduceVars, storeVars, jobVars, sourceVars, tlVars,
      epVars>>

notEpVars ==
    <<execVars, procVars, logVars, substVars, orchVars, authVars,
      daemonVars, reduceVars, storeVars, jobVars, sourceVars, tlVars,
      clockVars>>

vars == <<execVars, procVars, logVars, substVars, orchVars, authVars, daemonVars,
          reduceVars, storeVars,
          jobVars, sourceVars,
          tlVars,
          clockVars,
          epVars>>

\* ------------------------------------------------------------------
\* Prompt orchestrator (v2/services/prompt_orchestrator.py)
\* ------------------------------------------------------------------
\* the declarative table, entries of agent code_architect
prompt_sequences ==
    (<<"code_architect", "plan">> :> <<
        [type |-> "agent",  prompts |-> <<"01_analyze_project_structure.md",
                                          "02_create_migration_plan.md">>],
        [type |-> "target", prompts |-> <<"01_analyze.md">>],
        [type |-> "target", prompts |-> <<"02_plan.md">>],
        [type |-> "agent",  prompts |-> <<"03_design_target_architecture.md">>] >>)
    @@
    (<<"code_architect", "analyze">> :> <<
        [type |-> "agent",  prompts |-> <<"01_analyze_codebase.md",
                                          "02_identify_patterns.md">>],
        [type |-> "target", prompts |-> <<"01_analyze.md">>] >>)

\* capability -> target prompt files of the fallback policy
target_mapping ==
    [plan     |-> <<"01_analyze.md", "02_plan.md">>,
     analyze  |-> <<"01_analyze.md">>,
     migrate  |-> <<"03_migrate.md">>,
     validate |-> <<"04_validate.md">>,
     test     |-> <<"04_validate.md">>,
     refactor |-> <<"05_fix.md">>,
     discuss  |-> <<"06_discuss.md">>]

\* position of a file name in lexicographic order (sorted(glob('*.md')))
FileRank ==
    [f \in {"00_custom.md", "01_analyze.md", "01_analyze_codebase.md",
            "01_analyze_project_structure.md", "02_create_migration_plan.md",
            "02_identify_patterns.md", "03_design_target_architecture.md"} |->
        CASE f = "00_custom.md"                     -> 0
          [] f = "01_analyze.md"                    -> 1
          [] f = "01_analyze_codebase.md"           -> 2
          [] f = "01_analyze_project_structure.md"  -> 3
          [] f = "02_create_migration_plan.md"      -> 4
          [] f = "02_identify_patterns.md"          -> 5
          [] f = "03_design_target_architecture.md" -> 6]

RECURSIVE SortedFiles(_)
SortedFiles(S) ==
    IF S = {} THEN <<>>
    ELSE LET m == CHOOSE f \in S : \A g \in S : FileRank[f] <= FileRank[g]
         IN  <<m>> \o SortedFiles(S \ {m})

\* every file of `files` as a step, present or not
RECURSIVE AllSteps(_, _, _)
AllSteps(type, files, present) ==
    IF files = <<>> THEN <<>>
    ELSE <<[type |-> type, file |-> Head(files)]>>
         \o AllSteps(type, Tail(files), present)

\* the existing files of `files`, in order, as steps of type `type`
RECURSIVE ExistingSteps(_, _, _)
ExistingSteps(type, files, present) ==
    IF files = <<>> THEN <<>>
    ELSE (IF Head(files) \in present
          THEN <<[type |-> type, file |-> Head(files)]>>
          ELSE <<>>)
         \o ExistingSteps(type, Tail(files), present)

\* one entry per declared step: only the first prompt file of a step
RECURSIVE BuildPromptListFirstOnly(_, _, _)
BuildPromptListFirstOnly(sequence, afiles, tfiles) ==
    IF sequence = <<>> THEN <<>>
    ELSE LET step == Head(sequence)
         IN  ExistingSteps(step.type, <<Head(step.prompts)>>,
                           IF step.type = "agent" THEN afiles ELSE tfiles)
             \o BuildPromptListFirstOnly(Tail(sequence), afiles, tfiles)

RECURSIVE BuildPromptList(_, _, _)
BuildPromptList(sequence, afiles, tfiles) ==
    IF sequence = <<>> THEN <<>>
    ELSE LET step == Head(sequence)
         IN  ExistingSteps(step.type, step.prompts,
                           IF step.type = "agent" THEN afiles ELSE tfiles)
             \o BuildPromptList(Tail(sequence), afiles, tfiles)

\* the fallback with the target prompts ahead of the agent prompts
GetFallbackSequenceTargetsFirst(agent, cap, dirExists, afiles, tfiles) ==
    (IF cap \in DOMAIN target_mapping
     THEN ExistingSteps("target", target_mapping[cap], tfiles)
     ELSE <<>>)
    \o
    (IF dirExists THEN ExistingSteps("agent", SortedFiles(afiles), afiles) ELSE <<>>)

GetFallbackSequence(agent, cap, dirExists, afiles, tfiles) ==
    (IF dirExists THEN ExistingSteps("agent", SortedFiles(afiles), afiles) ELSE <<>>)
    \o
    (IF cap \in DOMAIN target_mapping
     THEN ExistingSteps("target", target_mapping[cap], tfiles)
     ELSE <<>>)

GetPromptSequence(agent, cap, dirExists, afiles, tfiles) ==
    IF <<agent, cap>> \notin DOMAIN prompt_sequences
    THEN GetFallbackSequence(agent, cap, dirExists, afiles, tfiles)
    ELSE BuildPromptList(prompt_sequences[<<agent, cap>>], afiles, tfiles)


\* ------------------------------------------------------------------
\* ExecutionService (v2/services/execution_service.py)
\* ------------------------------------------------------------------
\* the inputs of the call, which no action changes
inputVars == <<agent_name, capability, agent_dir_exists, agent_files,
               target_files, session_manager>>

\* the locals of _execute_with_claude
localVars == <<stdout_open, stderr_open, written, pipe, reader, message_queue,
               output_lines, deadline_passed, return_code, term_sent, timed_out>>

NoRecord == [status |-> "none", prompt_results |-> <<>>, early |-> FALSE]

NoProc == [st |-> "none", rc |-> {}, hung |-> FALSE]

\* agent steps of the directory fallback of execute_task
DirectorySteps(afiles) == ExistingSteps("agent", SortedFiles(afiles), afiles)

\* ResolveSequence without the test of line 84 for an empty directory
ResolveSequenceNoEmptyCheck(agent, cap, dirExists, afiles, tfiles) ==
    LET orchestrated == GetPromptSequence(agent, cap, dirExists, afiles, tfiles)
    IN  IF orchestrated # <<>> THEN [early |-> FALSE, seq |-> orchestrated]
        ELSE IF ~dirExists THEN [early |-> TRUE, seq |-> <<>>]
        ELSE [early |-> FALSE, seq |-> DirectorySteps(afiles)]

\* lines 62-103: the sequence execute_task runs, or the early error return
ResolveSequence(agent, cap, dirExists, afiles, tfiles) ==
    LET orchestrated == GetPromptSequence(agent, cap, dirExists, afiles, tfiles)
    IN  IF orchestrated # <<>> THEN [early |-> FALSE, seq |-> orchestrated]
        ELSE IF ~dirExists THEN [early |-> TRUE, seq |-> <<>>]
        ELSE IF afiles = {} THEN [early |-> TRUE, seq |-> <<>>]
        ELSE [early |-> FALSE, seq |-> DirectorySteps(afiles)]

\* the loop without its break
NeverStop(result) == FALSE

\* line 141: the loop leaves on the first result with status 'error'
StopOnError(result) == result.status = "error"

\* success decided by the output alone, the exit code ignored
StepSuccessAnyExit(rc, nlines) == nlines > 0

\* line 398: success = return_code == 0 and len(output_lines) > 0
StepSuccess(rc, nlines) == rc = {0} /\ nlines > 0

\* lines 237-243 and 397-410: the prompt result of a finished run
PromptResult(file, success, nlines, stderr_output) ==
    [prompt_file |-> file,
     status |-> IF success THEN "success" ELSE "error",
     output |-> (~(~success /\ stderr_output) /\ nlines > 0),
     error  |-> (~success /\ stderr_output)]

\* lines 245-252 and 412-417: the prompt result of a caught exception
ExceptionResult(file) ==
    [prompt_file |-> file, status |-> "error", output |-> FALSE, error |-> TRUE]

\* the locals of _execute_with_claude before a call and after its return
NoLocals ==
    /\ stdout_open' = FALSE
    /\ stderr_open' = FALSE
    /\ written' = 0
    /\ pipe' = <<>>
    /\ reader' = "none"
    /\ message_queue' = <<>>
    /\ output_lines' = 0
    /\ deadline_passed' = FALSE
    /\ return_code' = {}
    /\ term_sent' = FALSE
    /\ timed_out' = FALSE

\* lines 139-148: record the result, stop on the first error
AppendResult(result) ==
    /\ results' = Append(results, result)
    /\ overall_status' = IF result.status = "error" THEN "error" ELSE overall_status
    /\ IF StopOnError(result) \/ i = Len(prompt_sequence)
       THEN pc' = "save" /\ i' = i
       ELSE pc' = "exec_prompt" /\ i' = i + 1

\* lines 55-118
ExecuteTaskStart ==
    /\ pc = "start"
    /\ LET r == ResolveSequence(agent_name, capability, agent_dir_exists,
                                agent_files, target_files)
       IN  IF r.early
           THEN /\ pc' = "done"
                /\ ret' = [status |-> "error", prompt_results |-> <<>>, early |-> TRUE]
                /\ UNCHANGED <<prompt_sequence, i, proc>>
           ELSE /\ pc' = IF r.seq = <<>> THEN "save" ELSE "exec_prompt"
                /\ prompt_sequence' = r.seq
                /\ i' = 1
                /\ proc' = [j \in 1..Len(r.seq) |-> NoProc]
                /\ ret' = ret
    /\ UNCHANGED <<notExecVars, inputVars, localVars, results, overall_status, executed>>

\* lines 120-138 and 194-200: _execute_prompt reads the template
ExecutePrompt ==
    /\ pc = "exec_prompt"
    /\ executed' = executed \cup {i}
    /\ \E readable \in BOOLEAN :
         IF readable
         THEN pc' = "claude" /\ UNCHANGED <<results, overall_status, i>>
         ELSE AppendResult(ExceptionResult(prompt_sequence[i].file))
    /\ UNCHANGED <<notExecVars, inputVars, localVars, prompt_sequence, ret, proc>>

\* lines 274-365: _execute_with_claude up to the start of the poll loop
ExecuteWithClaude ==
    /\ pc = "claude"
    /\ IF ~session_manager
       THEN /\ AppendResult(PromptResult(prompt_sequence[i].file, FALSE, 0, TRUE))
            /\ UNCHANGED <<proc, localVars>>
       ELSE \E started \in BOOLEAN, h \in BOOLEAN :
              IF started
              THEN /\ proc' = [proc EXCEPT ![i] =
                                 [st |-> "running", rc |-> {}, hung |-> h]]
                   /\ stdout_open' = TRUE
                   /\ stderr_open' = TRUE
                   /\ reader' = "running"
                   /\ pc' = "poll"
                   /\ UNCHANGED <<results, overall_status, i, written, pipe,
                                  message_queue, output_lines, deadline_passed,
                                  return_code, term_sent, timed_out>>
              ELSE /\ AppendResult(ExceptionResult(prompt_sequence[i].file))
                   /\ UNCHANGED <<proc, localVars>>
    /\ UNCHANGED <<notExecVars, inputVars, prompt_sequence, ret, executed>>

\* kinds of stdout lines the reader thread tells apart (lines 300-345)
LineKinds == {"assistant", "tool_use", "raw"}

\* the coordinator is inside _execute_with_claude, its process started
InCall == pc \in {"poll", "join", "returncode", "stderr"}

\* ---- the subprocess of the current step (environment)
ProcWrite ==
    /\ InCall /\ proc[i].st = "running" /\ stdout_open
    /\ written < MaxLines
    /\ \E k \in LineKinds : pipe' = Append(pipe, k)
    /\ written' = written + 1
    /\ UNCHANGED <<notExecVars, inputVars, pc, prompt_sequence, i, results, overall_status,
                   ret, executed, proc, stdout_open, stderr_open, reader,
                   message_queue, output_lines, deadline_passed, return_code,
                   term_sent, timed_out>>

ProcCloseStdout ==
    /\ InCall /\ proc[i].st = "running" /\ stdout_open
    /\ stdout_open' = FALSE
    /\ UNCHANGED <<notExecVars, inputVars, pc, prompt_sequence, i, results, overall_status,
                   ret, executed, proc, stderr_open, written, pipe, reader,
                   message_queue, output_lines, deadline_passed, return_code,
                   term_sent, timed_out>>

ProcCloseStderr ==
    /\ InCall /\ proc[i].st = "running" /\ stderr_open
    /\ stderr_open' = FALSE
    /\ UNCHANGED <<notExecVars, inputVars, pc, prompt_sequence, i, results, overall_status,
                   ret, executed, proc, stdout_open, written, pipe, reader,
                   message_queue, output_lines, deadline_passed, return_code,
                   term_sent, timed_out>>

\* exit codes: 0, a failure code, or death by SIGTERM (Popen reports -15)
ExitCodes(signalled) == IF signalled THEN {0, 1, -15} ELSE {0, 1}

\* the process of step j ends; a hung process never exits on its own and
\* ignores the terminate signal
ProcExit(j) ==
    /\ proc[j].st = "running" /\ ~proc[j].hung
    /\ \E c \in ExitCodes(j = i /\ term_sent) :
         proc' = [proc EXCEPT ![j].st = "exited", ![j].rc = {c}]
    /\ IF j = i /\ InCall
       THEN stdout_open' = FALSE /\ stderr_open' = FALSE
       ELSE UNCHANGED <<stdout_open, stderr_open>>
    /\ UNCHANGED <<notExecVars, inputVars, pc, prompt_sequence, i, results, overall_status,
                   ret, executed, written, pipe, reader, message_queue,
                   output_lines, deadline_passed, return_code, term_sent, timed_out>>

\* ---- the output thread: process_output (lines 298-350)
\* one line of stdout: lines 300-345
ReaderLine ==
    /\ reader = "running" /\ pipe # <<>>
    /\ pipe' = Tail(pipe)
    /\ LET k == Head(pipe)
       IN  /\ output_lines' = IF k \in {"assistant", "raw"}
                              THEN output_lines + 1 ELSE output_lines
           /\ message_queue' = IF k = "assistant" THEN Append(message_queue, "message")
                               ELSE IF k = "tool_use" THEN Append(message_queue, "tool")
                               ELSE message_queue
    /\ UNCHANGED <<notExecVars, inputVars, pc, prompt_sequence, i, results, overall_status,
                   ret, executed, proc, stdout_open, stderr_open, written, reader,
                   deadline_passed, return_code, term_sent, timed_out>>

\* an exception while a line is handled: lines 346-350
ReaderException ==
    /\ reader = "running" /\ pipe # <<>>
    /\ pipe' = Tail(pipe)
    /\ message_queue' = message_queue \o <<"error", "None">>
    /\ reader' = "done"
    /\ UNCHANGED <<notExecVars, inputVars, pc, prompt_sequence, i, results, overall_status,
                   ret, executed, proc, stdout_open, stderr_open, written,
                   output_lines, deadline_passed, return_code, term_sent, timed_out>>

\* end of stdout: lines 349-350
ReaderEOF ==
    /\ reader = "running" /\ pipe = <<>> /\ ~stdout_open
    /\ message_queue' = Append(message_queue, "None")
    /\ reader' = "done"
    /\ UNCHANGED <<notExecVars, inputVars, pc, prompt_sequence, i, results, overall_status,
                   ret, executed, proc, stdout_open, stderr_open, written, pipe,
                   output_lines, deadline_passed, return_code, term_sent, timed_out>>

\* ---- the coordinator: the poll loop and the end of _execute_with_claude
\* the wall clock passes the step deadline (timeout = 300, line 364)
DeadlinePasses ==
    /\ pc = "poll" /\ ~deadline_passed
    /\ deadline_passed' = TRUE
    /\ UNCHANGED <<notExecVars, inputVars, pc, prompt_sequence, i, results, overall_status,
                   ret, executed, proc, stdout_open, stderr_open, written, pipe,
                   reader, message_queue, output_lines, return_code, term_sent,
                   timed_out>>

\* process.terminate(): no signal is sent to a process that has ended
Terminate(p) == p.st = "running"

\* lines 368-371
PollTimeout ==
    /\ pc = "poll" /\ deadline_passed
    /\ term_sent' = Terminate(proc[i])
    /\ timed_out' = TRUE
    /\ pc' = "join"
    /\ UNCHANGED <<notExecVars, inputVars, prompt_sequence, i, results, overall_status, ret,
                   executed, proc, stdout_open, stderr_open, written, pipe,
                   reader, message_queue, output_lines, deadline_passed,
                   return_code>>

\* lines 373-380: message_queue.get(timeout=1) returned a message
PollGet ==
    /\ pc = "poll" /\ ~deadline_passed
    /\ message_queue # <<>>
    /\ message_queue' = Tail(message_queue)
    /\ pc' = IF Head(message_queue) = "None" THEN "join" ELSE "poll"
    /\ UNCHANGED <<notExecVars, inputVars, prompt_sequence, i, results, overall_status, ret,
                   executed, proc, stdout_open, stderr_open, written, pipe,
                   reader, output_lines, deadline_passed, return_code, term_sent, timed_out>>

\* line 383: output_thread.join(timeout=5) returns when the thread has ended
\* or when the 5 seconds are over
JoinOutputThread ==
    /\ pc = "join"
    /\ pc' = "returncode"
    /\ UNCHANGED <<notExecVars, inputVars, localVars, prompt_sequence, i, results,
                   overall_status, ret, executed, proc>>

\* line 386: return_code = process.poll()
PollReturnCode ==
    /\ pc = "returncode"
    /\ return_code' = proc[i].rc
    /\ pc' = "stderr"
    /\ UNCHANGED <<notExecVars, inputVars, prompt_sequence, i, results, overall_status, ret,
                   executed, proc, stdout_open, stderr_open, written, pipe,
                   reader, message_queue, output_lines, deadline_passed,
                   term_sent, timed_out>>

\* lines 389-410: process.stderr.read() returns at end of file, then the result
ReadStderrAndReturn ==
    /\ pc = "stderr"
    /\ ~stderr_open
    /\ \E stderr_output \in BOOLEAN :
         AppendResult(PromptResult(prompt_sequence[i].file,
                                   StepSuccess(return_code, output_lines),
                                   output_lines, stderr_output))
    /\ NoLocals
    /\ UNCHANGED <<notExecVars, inputVars, prompt_sequence, ret, executed, proc>>

\* lines 469-490: the per-step files, in the order they are written
RECURSIVE StepFiles(_)
StepFiles(rs) ==
    IF rs = <<>> THEN <<>>
    ELSE (IF Head(rs).status = "success" /\ Head(rs).output
          THEN <<[step |-> Head(rs).prompt_file, suffix |-> "_output.md"]>>
          ELSE <<>>)
         \o (IF Head(rs).status = "error" /\ Head(rs).error
             THEN <<[step |-> Head(rs).prompt_file, suffix |-> "_error.txt"]>>
             ELSE <<>>)
         \o StepFiles(Tail(rs))

\* lines 452-507: the files _save_execution_outputs writes, in order
WriteOrder(rs) ==
    <<[name |-> "execution_summary.json"]>> \o StepFiles(rs)
        \o <<[name |-> "combined_output.md"]>>

\* lines 499-505: the sections of combined_output.md
CombinedSections(rs) ==
    [n \in DOMAIN rs |->
        [prompt_file |-> rs[n].prompt_file,
         body |-> IF rs[n].status = "success" THEN "output" ELSE "error"]]

\* the directory after the first k writes; the combined file is the last one
OutputAfter(rs, k) ==
    [files |-> {WriteOrder(rs)[n] : n \in 1..k},
     combined |-> IF k = Len(WriteOrder(rs)) THEN CombinedSections(rs) ELSE <<>>]

\* line 55: the execution id; one call is explored, so one id
ExecutionId == <<"job1", "stage1", 0>>

\* lines 150-160: the execution record
ExecutionRecord(job_id, status, rs) ==
    [job_id |-> job_id, status |-> status, prompt_results |-> rs]

\* a store that keeps the latest record only
StoreLatestOnly(logs, record) == <<record>>

\* line 168: self.execution_logs.append(execution_result)
StoreExecution(logs, record) == Append(logs, record)

\* lines 150-178: _save_execution_outputs, then the record is stored and
\* returned; a failing mkdir or write raises out of execute_task
SaveAndReturn ==
    /\ pc = "save"
    /\ \E k \in 0..Len(WriteOrder(results)) :
         /\ output_dir' = OutputAfter(results, k)
         /\ IF k = Len(WriteOrder(results))
            THEN /\ pc' = "done"
                 /\ ret' = [status |-> overall_status, prompt_results |-> results,
                            early |-> FALSE]
                 /\ executions' =
                       (ExecutionId :> ExecutionRecord("job1", overall_status, results))
                 /\ execution_logs' =
                       StoreExecution(execution_logs,
                                      ExecutionRecord("job1", overall_status, results))
            ELSE /\ pc' = "raised"
                 /\ ret' = ret
                 /\ UNCHANGED <<executions, execution_logs>>
    /\ UNCHANGED <<notExecStoreVars, inputVars, localVars, prompt_sequence, i, results,
                   overall_status, executed, proc, history>>

\* ------------------------------------------------------------------
\* Specification of one execute_task call
\* ------------------------------------------------------------------
\* tasks: one pair of the declarative table, one pair outside it
Tasks == {<<"code_architect", "analyze">>, <<"custom_agent", "analyze">>}

AgentFiles == {"00_custom.md", "01_analyze_codebase.md", "02_identify_patterns.md"}

TargetFiles == {"01_analyze.md"}

InitExec ==
    /\ \E t \in Tasks : agent_name = t[1] /\ capability = t[2]
    /\ agent_files \in SUBSET AgentFiles
    /\ agent_dir_exists \in BOOLEAN
    /\ (agent_files # {} => agent_dir_exists)
    /\ target_files \in SUBSET TargetFiles
    /\ session_manager \in BOOLEAN
    /\ pc = "start"
    /\ prompt_sequence = <<>>
    /\ i = 0
    /\ results = <<>>
    /\ overall_status = "success"
    /\ ret = NoRecord
    /\ executed = {}
    /\ proc = <<>>
    /\ stdout_open = FALSE
    /\ stderr_open = FALSE
    /\ written = 0
    /\ pipe = <<>>
    /\ reader = "none"
    /\ message_queue = <<>>
    /\ output_lines = 0
    /\ deadline_passed = FALSE
    /\ return_code = {}
    /\ term_sent = FALSE
    /\ timed_out = FALSE

\* process = None
NoProcess ==
    [st |-> "none", rc |-> {}, stdout |-> FALSE, stderr |-> FALSE,
     term |-> "none", kill |-> FALSE, grace_expired |-> FALSE,
     term_wait_expired |-> FALSE]

\* no start_process call is under way
IdleProc ==
    /\ enhanced = FALSE
    /\ ppc = "idle"
    /\ stage = "none"
    /\ retry_count = 0
    /\ attempts = 0
    /\ sleeps = <<>>
    /\ pending_auth = FALSE
    /\ process = NoProcess
    /\ lines_read = 0
    /\ app_queue = <<>>

\* no execute_task call is under way
IdleExec ==
    /\ agent_name = "none"
    /\ capability = "none"
    /\ agent_dir_exists = FALSE
    /\ agent_files = {}
    /\ target_files = {}
    /\ session_manager = FALSE
    /\ pc = "idle"
    /\ prompt_sequence = <<>>
    /\ i = 0
    /\ results = <<>>
    /\ overall_status = "success"
    /\ ret = NoRecord
    /\ executed = {}
    /\ proc = <<>>
    /\ stdout_open = FALSE
    /\ stderr_open = FALSE
    /\ written = 0
    /\ pipe = <<>>
    /\ reader = "none"
    /\ message_queue = <<>>
    /\ output_lines = 0
    /\ deadline_passed = FALSE
    /\ return_code = {}
    /\ term_sent = FALSE
    /\ timed_out = FALSE

\* no add_task_log call is explored
IdleLog ==
    /\ log_threads = {}
    /\ task_logs = [present |-> FALSE, list |-> <<>>]
    /\ appended = 0
    /\ append_limit = 0
    /\ lpc = <<>>
    /\ lstale = <<>>
    /\ ltmp = <<>>

\* no _substitute_variables call is explored
IdleSubst ==
    /\ tpl_content = <<>>
    /\ tpl_context = <<>>
    /\ tpl_result = <<>>
    /\ tpl_pc = "idle"

\* no orchestrator call is explored
IdleOrch ==
    /\ o_agent = "none"
    /\ o_cap = "none"
    /\ o_dir_exists = FALSE
    /\ o_afiles = {}
    /\ o_tfiles = <<>>
    /\ o_call = [op |-> "none"]
    /\ o_result = <<>>
    /\ o_pc = "idle"

IdleAuth ==
    /\ auth_now = 0
    /\ last_refresh = {}
    /\ session_start_time = {}
    /\ current_session = {}
    /\ auth_call = [op |-> "none"]

IdleDaemon ==
    /\ running = FALSE
    /\ refresh_thread = "none"
    /\ sleep_left = 0
    /\ daemon_caller = "idle"
    /\ stop_set_flag = FALSE
    /\ after_error = FALSE
    /\ restarted = FALSE

\* the directory before the first write of lines 444-507
NoOutput == [files |-> {}, combined |-> <<>>]

\* __init__, lines 27-28: nothing is stored yet
IdleStore ==
    /\ output_dir = NoOutput
    /\ executions = <<>>
    /\ execution_logs = <<>>
    /\ history = <<>>

\* no job has been created yet
IdleJob ==
    /\ job = [exists |-> FALSE]
    /\ job_ret = "none"
    /\ job_calls = 0

\* __init__, lines 22-40, without a metadata file: no source is registered
IdleSource ==
    /\ sources = <<>>
    /\ source_files = {}
    /\ metadata_file = <<>>
    /\ src_ret = [op |-> "none"]
    /\ src_calls = 0

\* no execute_task call is being followed through its log
IdleTaskLog ==
    /\ tl_pc = "idle"
    /\ tl_n = 0
    /\ tl_i = 0
    /\ tl_status = "success"
    /\ tl_log = <<>>
    /\ tl_reader = <<>>
    /\ tl_lines = <<>>
    /\ tl_results = <<>>
    /\ tl_timed_out = FALSE
    /\ tl_ret = "none"

\* no execute_task call is in flight
IdleClock ==
    /\ wall_clock = 0
    /\ in_flight = <<>>

\* no execute request is being served
IdleEndpoint ==
    /\ jobs_file = <<>>
    /\ requests = <<>>

IdleReduce ==
    /\ r_impl = "none"
    /\ r_read = 0
    /\ r_line = [kind |-> "none"]
    /\ r_emitted = <<>>
    /\ r_output = <<>>
    /\ r_stopped = FALSE

Init ==
    /\ InitExec
    /\ IdleProc
    /\ IdleLog
    /\ IdleSubst
    /\ IdleOrch
    /\ IdleAuth
    /\ IdleDaemon
    /\ IdleReduce
    /\ IdleStore
    /\ IdleJob
    /\ IdleSource
    /\ IdleEndpoint
    /\ IdleClock
    /\ IdleTaskLog

Process ==
    \/ ProcWrite
    \/ ProcCloseStdout
    \/ ProcCloseStderr
    \/ \E j \in DOMAIN proc : ProcExit(j)

OutputThread == ReaderLine \/ ReaderException \/ ReaderEOF

Next ==
    \/ ExecuteTaskStart
    \/ ExecutePrompt
    \/ ExecuteWithClaude
    \/ DeadlinePasses
    \/ PollTimeout
    \/ PollGet
    \/ JoinOutputThread
    \/ PollReturnCode
    \/ ReadStderrAndReturn
    \/ SaveAndReturn
    \/ Process
    \/ OutputThread

Spec == Init /\ [][Next]_vars


\* what the orchestrator resolved for the task of this call
Orchestrated ==
    GetPromptSequence(agent_name, capability, agent_dir_exists, agent_files,
                      target_files)

Started == {j \in DOMAIN proc : proc[j].st # "none"}

Alive == {j \in DOMAIN proc : proc[j].st = "running"}

Returned == pc \in {"done", "raised"}

\* ------------------------------------------------------------------
\* Fairness: the coordinator, the output thread and the clock keep running;
\* a process that is not hung ends. Nothing makes a process close a pipe
\* it holds or write to it.
\* ------------------------------------------------------------------
Coordinator ==
    \/ ExecuteTaskStart
    \/ ExecutePrompt
    \/ ExecuteWithClaude
    \/ PollTimeout
    \/ PollGet
    \/ JoinOutputThread
    \/ PollReturnCode
    \/ ReadStderrAndReturn
    \/ SaveAndReturn

LiveSpec ==
    /\ Init
    /\ [][Next]_vars
    /\ WF_vars(Coordinator)
    /\ WF_vars(OutputThread)
    /\ WF_vars(DeadlinePasses)
    /\ WF_vars(\E j \in DOMAIN proc : ProcExit(j))

\* ------------------------------------------------------------------
\* Claims about execute_task
\* ------------------------------------------------------------------
\* C1: fail-fast. If step k is the first step whose result has status 'error',
\* no later step is executed, prompt_results has exactly k entries and the
\* record's status is 'error'.
C1_FailFast ==
    \A k \in 1..Len(results) :
        results[k].status = "error" =>
            /\ Len(results) = k
            /\ \A j \in DOMAIN proc : j > k => (j \notin executed /\ proc[j].st = "none")
            /\ overall_status = "error"
            /\ pc = "done" => (ret.status = "error" /\ Len(ret.prompt_results) = k)

\* a 3-step sequence whose step 2 failed has been returned
C1_Witness ==
    /\ pc = "done"
    /\ Len(prompt_sequence) = 3
    /\ Len(ret.prompt_results) = 2
    /\ ret.prompt_results[1].status = "success"
    /\ ret.prompt_results[2].status = "error"
    /\ proc[2].st # "none"

C3_StepsSequential ==
    /\ Cardinality(Alive) <= 1
    /\ \A j \in Started : Len(results) >= j - 1
    /\ \A j \in executed : \A k \in 1..(j - 1) : k \in executed

\* the process of step 2 runs, after the process of step 1 has ended
C3_Witness ==
    /\ Len(prompt_sequence) >= 2
    /\ proc[1].st = "exited"
    /\ proc[2].st = "running"

\* C4: no exception crosses execute_task: every failure of a step or of the
\* output persistence ends in a returned record with status 'error'.
C4_NoExceptionEscapes == pc # "raised"

\* C6: a hung subprocess never blocks the caller forever: the call returns.
C6_CallReturns == <>Returned

\* C10: a step whose poll loop ended by the timeout has a failure as result,
\* whatever exit code the terminated process reports.
C10_TimeoutIsFailure ==
    [][(pc = "stderr" /\ timed_out /\ pc' # "stderr")
         => results'[Len(results')].status = "error"]_vars


\* ------------------------------------------------------------------
\* ProcessManager (app.py) and EnhancedProcessManager (claude_auth.py)
\* ------------------------------------------------------------------
\* claude_auth.py line 253
max_retries == 3

\* a process just started by subprocess.Popen
NewProcess ==
    [st |-> "running", rc |-> {}, stdout |-> TRUE, stderr |-> TRUE,
     term |-> "none", kill |-> FALSE, grace_expired |-> FALSE,
     term_wait_expired |-> FALSE]

\* the reaping code without the wait that follows kill()
ReapNextNoWaitAfterKill(at, exited) ==
    CASE at = "wait5"     -> IF exited THEN "done" ELSE "terminate"
      [] at = "terminate" -> "wait2"
      [] at = "wait2"     -> IF exited THEN "done" ELSE "kill"
      [] at = "kill"      -> "done"
      [] at = "waitk"     -> "done"

\* app.py lines 557-568, claude_auth.py lines 304-314 and 331-337: the place
\* after `at`, `exited` telling whether the wait found the process ended
ReapNext(at, exited) ==
    CASE at = "wait5"     -> IF exited THEN "done" ELSE "terminate"
      [] at = "terminate" -> "wait2"
      [] at = "wait2"     -> IF exited THEN "done" ELSE "kill"
      [] at = "kill"      -> "waitk"
      [] at = "waitk"     -> "done"

\* where the thread goes on when the reaping code is done
AfterReap(at) ==
    CASE at = "epm_reap"    -> "epm_returncode"
      [] at = "epm_cleanup" -> "epm_backoff"
      [] at = "fb_reap"     -> "fb_marker"

\* one step of the reaping code: a wait, terminate() or kill()
Reap ==
    /\ ppc \in {"epm_reap", "epm_cleanup", "fb_reap"}
    /\ LET exited == process.st = "exited"
           next == ReapNext(stage, exited)
       IN  /\ stage = "waitk" => exited
           /\ process' =
                CASE stage = "wait5" /\ ~exited ->
                       [process EXCEPT !.grace_expired = TRUE]
                  [] stage = "wait2" /\ ~exited ->
                       [process EXCEPT !.term_wait_expired = TRUE]
                  [] stage = "terminate" /\ ~exited ->
                       [process EXCEPT !.term = IF ppc = "epm_cleanup"
                                                 THEN "cleanup" ELSE "reaper"]
                  [] stage = "kill" /\ ~exited ->
                       [process EXCEPT !.kill = TRUE]
                  [] OTHER -> process
           /\ IF next = "done"
              THEN ppc' = AfterReap(ppc) /\ stage' = "none"
              ELSE ppc' = ppc /\ stage' = next
    /\ UNCHANGED <<notProcVars, enhanced, retry_count, attempts, sleeps,
                   pending_auth, lines_read, app_queue>>

\* ---- the subprocess (environment)
\* exit codes the operating system can report: 0, a failure code, and the
\* signal numbers of terminate() and kill() once they were sent
ProcessExitCodes(p) ==
    {0, 1} \cup (IF p.term # "none" THEN {-15} ELSE {})
           \cup (IF p.kill THEN {-9} ELSE {})

PExit ==
    /\ process.st = "running"
    /\ \E c \in ProcessExitCodes(process) :
         process' = [process EXCEPT !.st = "exited", !.rc = {c},
                                    !.stdout = FALSE, !.stderr = FALSE]
    /\ UNCHANGED <<notProcVars, enhanced, ppc, stage, retry_count, attempts, sleeps,
                   pending_auth, lines_read, app_queue>>

PCloseStdout ==
    /\ process.st = "running" /\ process.stdout
    /\ process' = [process EXCEPT !.stdout = FALSE]
    /\ UNCHANGED <<notProcVars, enhanced, ppc, stage, retry_count, attempts, sleeps,
                   pending_auth, lines_read, app_queue>>

PCloseStderr ==
    /\ process.st = "running" /\ process.stderr
    /\ process' = [process EXCEPT !.stderr = FALSE]
    /\ UNCHANGED <<notProcVars, enhanced, ppc, stage, retry_count, attempts, sleeps,
                   pending_auth, lines_read, app_queue>>

\* ---- EnhancedProcessManager.start_process (claude_auth.py lines 251-348)
\* app.py lines 689-699: run_process starts, with or without the manager
RunProcess ==
    /\ ppc = "start"
    /\ ppc' = IF enhanced THEN "epm_loop" ELSE "fb_launch"
    /\ UNCHANGED <<notProcVars, enhanced, stage, retry_count, attempts, sleeps,
                   pending_auth, process, lines_read, app_queue>>

\* line 257: while retry_count < max_retries
EpmLoop ==
    /\ ppc = "epm_loop"
    /\ ppc' = IF retry_count < max_retries THEN "epm_launch" ELSE "epm_marker"
    /\ UNCHANGED <<notProcVars, enhanced, stage, retry_count, attempts, sleeps,
                   pending_auth, process, lines_read, app_queue>>

\* line 259: start_claude_process returns a process or raises
EpmLaunch ==
    /\ ppc = "epm_launch"
    /\ attempts' = attempts + 1
    /\ pending_auth' = FALSE
    /\ \E started \in BOOLEAN :
         IF started
         THEN process' = NewProcess /\ ppc' = "epm_read"
         ELSE process' = process /\ ppc' = "epm_except"
    /\ UNCHANGED <<notProcVars, enhanced, stage, retry_count, sleeps, lines_read,
                   app_queue>>

\* the queue event of a message that is no recovered auth error:
\* _handle_message (lines 350-359) and the raw fallback (lines 285-291)
EventOf(kind) ==
    CASE kind = "assistant" -> <<"message">>
      [] kind = "raw"       -> <<"raw">>
      [] kind = "error"     -> <<>>

\* lines 263-291: one line of stdout
EpmLine ==
    /\ ppc = "epm_read"
    /\ process.stdout
    /\ lines_read < MaxProcLines
    /\ lines_read' = lines_read + 1
    /\ \E kind \in {"assistant", "raw", "error"}, recovered \in BOOLEAN :
         IF kind = "error" /\ recovered
         THEN /\ retry_count' = retry_count + 1
              /\ pending_auth' = (retry_count + 1 < max_retries)
              /\ ppc' = "epm_stderr"
              /\ app_queue' = app_queue
         ELSE /\ app_queue' = app_queue \o EventOf(kind)
              /\ UNCHANGED <<retry_count, pending_auth, ppc>>
    /\ UNCHANGED <<notProcVars, enhanced, stage, attempts, sleeps, process>>

\* an exception inside the try block while the output is read
EpmReadException ==
    /\ ppc = "epm_read"
    /\ ppc' = "epm_except"
    /\ UNCHANGED <<notProcVars, enhanced, stage, retry_count, attempts, sleeps,
                   pending_auth, process, lines_read, app_queue>>

\* the for loop ends at the end of stdout
EpmEOF ==
    /\ ppc = "epm_read"
    /\ ~process.stdout
    /\ ppc' = "epm_stderr"
    /\ UNCHANGED <<notProcVars, enhanced, stage, retry_count, attempts, sleeps,
                   pending_auth, process, lines_read, app_queue>>

\* lines 293-301: process.stderr.read() returns at the end of stderr; the
\* --api-key-helper message raises
EpmStderr ==
    /\ ppc = "epm_stderr"
    /\ ~process.stderr
    /\ \E compat \in BOOLEAN :
         IF compat
         THEN ppc' = "epm_except" /\ stage' = stage
         ELSE ppc' = "epm_reap" /\ stage' = "wait5"
    /\ UNCHANGED <<notProcVars, enhanced, retry_count, attempts, sleeps,
                   pending_auth, process, lines_read, app_queue>>

\* lines 316-325: the return code; 401 and 403 are no exit codes a process
\* can report, so the loop is left
EpmReturnCode ==
    /\ ppc = "epm_returncode"
    /\ \E recovered \in BOOLEAN :
         IF process.rc \subseteq {401, 403} /\ process.rc # {} /\ recovered
         THEN /\ retry_count' = retry_count + 1
              /\ pending_auth' = (retry_count + 1 < max_retries)
              /\ ppc' = "epm_loop"
         ELSE /\ ppc' = "epm_marker"
              /\ UNCHANGED <<retry_count, pending_auth>>
    /\ UNCHANGED <<notProcVars, enhanced, stage, attempts, sleeps, process,
                   lines_read, app_queue>>

\* lines 327-339: the except block starts to clean up the process, if any
EpmExcept ==
    /\ ppc = "epm_except"
    /\ IF process.st = "none"
       THEN ppc' = "epm_backoff" /\ stage' = stage
       ELSE ppc' = "epm_cleanup" /\ stage' = "terminate"
    /\ UNCHANGED <<notProcVars, enhanced, retry_count, attempts, sleeps,
                   pending_auth, process, lines_read, app_queue>>

\* 2 ** n
RECURSIVE Pow2(_)
Pow2(n) == IF n = 0 THEN 1 ELSE 2 * Pow2(n - 1)

\* lines 341-345: back off and retry, or re-raise to run_process
EpmBackoff ==
    /\ ppc = "epm_backoff"
    /\ IF retry_count < max_retries - 1
       THEN /\ retry_count' = retry_count + 1
            /\ sleeps' = Append(sleeps, [after |-> attempts,
                                         seconds |-> Pow2(retry_count + 1)])
            /\ ppc' = "epm_loop"
       ELSE /\ ppc' = "epm_raised"
            /\ UNCHANGED <<retry_count, sleeps>>
    /\ UNCHANGED <<notProcVars, enhanced, stage, attempts, pending_auth, process,
                   lines_read, app_queue>>

\* line 348: message_queue.put(None), and start_process returns
EpmMarker ==
    /\ ppc = "epm_marker"
    /\ app_queue' = Append(app_queue, "None")
    /\ ppc' = "finished"
    /\ UNCHANGED <<notProcVars, enhanced, stage, retry_count, attempts, sleeps,
                   pending_auth, process, lines_read>>

\* ---- the fallback of run_process (app.py lines 696-775)
\* lines 696-698: the exception of the manager is caught
FallBack ==
    /\ ppc = "epm_raised"
    /\ ppc' = "fb_launch"
    /\ UNCHANGED <<notProcVars, enhanced, stage, retry_count, attempts, sleeps,
                   pending_auth, process, lines_read, app_queue>>

\* lines 711-718 and 758-775: Popen starts the process, or an error message
\* is queued and the thread ends
FbLaunch ==
    /\ ppc = "fb_launch"
    /\ \E started \in BOOLEAN :
         IF started
         THEN /\ process' = NewProcess
              /\ ppc' = "fb_read"
              /\ app_queue' = app_queue
         ELSE /\ process' = process
              /\ ppc' = "finished"
              /\ app_queue' = Append(app_queue, "error")
    /\ UNCHANGED <<notProcVars, enhanced, stage, retry_count, attempts, sleeps,
                   pending_auth, lines_read>>

\* process_claude_output, lines 516-530: one line of stdout
FbLine ==
    /\ ppc = "fb_read"
    /\ process.stdout
    /\ lines_read < MaxProcLines
    /\ lines_read' = lines_read + 1
    /\ \E kind \in {"assistant", "raw", "error"} :
         app_queue' = app_queue \o EventOf(kind)
    /\ UNCHANGED <<notProcVars, enhanced, ppc, stage, retry_count, attempts, sleeps,
                   pending_auth, process>>

\* lines 532-537: an exception while the output is read
FbReadException ==
    /\ ppc = "fb_read"
    /\ app_queue' = Append(app_queue, "error")
    /\ ppc' = "fb_reap"
    /\ stage' = "wait5"
    /\ UNCHANGED <<notProcVars, enhanced, retry_count, attempts, sleeps,
                   pending_auth, process, lines_read>>

\* the for loop ends at the end of stdout; lines 538-555 drain stderr
FbEOF ==
    /\ ppc = "fb_read"
    /\ ~process.stdout
    /\ ppc' = "fb_reap"
    /\ stage' = "wait5"
    /\ UNCHANGED <<notProcVars, enhanced, retry_count, attempts, sleeps,
                   pending_auth, process, lines_read, app_queue>>

\* lines 570-584: the completion marker of process_claude_output
FbMarker ==
    /\ ppc = "fb_marker"
    /\ app_queue' = Append(app_queue, "None")
    /\ ppc' = "fb_wait"
    /\ UNCHANGED <<notProcVars, enhanced, stage, retry_count, attempts, sleeps,
                   pending_auth, process, lines_read>>

\* lines 721-757: process.wait(), then an error message for a non-zero code
FbWait ==
    /\ ppc = "fb_wait"
    /\ process.st = "exited"
    /\ app_queue' = IF process.rc # {0} THEN Append(app_queue, "error")
                    ELSE app_queue
    /\ ppc' = "finished"
    /\ UNCHANGED <<notProcVars, enhanced, stage, retry_count, attempts, sleeps,
                   pending_auth, process, lines_read>>

\* ------------------------------------------------------------------
\* Specification of one ProcessManager.start_process call
\* ------------------------------------------------------------------
InitProc ==
    /\ IdleExec
    /\ IdleLog
    /\ IdleSubst
    /\ IdleOrch
    /\ IdleAuth
    /\ IdleDaemon
    /\ IdleReduce
    /\ IdleStore
    /\ IdleJob
    /\ IdleSource
    /\ IdleEndpoint
    /\ IdleClock
    /\ IdleTaskLog
    /\ enhanced \in BOOLEAN
    /\ ppc = "start"
    /\ stage = "none"
    /\ retry_count = 0
    /\ attempts = 0
    /\ sleeps = <<>>
    /\ pending_auth = FALSE
    /\ process = NoProcess
    /\ lines_read = 0
    /\ app_queue = <<>>

NextProc ==
    \/ RunProcess
    \/ EpmLoop
    \/ EpmLaunch
    \/ EpmLine
    \/ EpmReadException
    \/ EpmEOF
    \/ EpmStderr
    \/ EpmReturnCode
    \/ EpmExcept
    \/ EpmBackoff
    \/ EpmMarker
    \/ FallBack
    \/ FbLaunch
    \/ FbLine
    \/ FbReadException
    \/ FbEOF
    \/ FbMarker
    \/ FbWait
    \/ Reap
    \/ PExit
    \/ PCloseStdout
    \/ PCloseStderr

SpecProc == InitProc /\ [][NextProc]_vars

\* ------------------------------------------------------------------
\* Properties of start_process
\* ------------------------------------------------------------------
\* completion markers on the message queue
Markers == {k \in DOMAIN app_queue : app_queue[k] = "None"}

\* the reaping code (not the except block) has finished
Reaped == ppc \in {"epm_returncode", "fb_marker", "fb_wait"}

\* C5: when the thread of a process run has ended, the completion marker
\* (None) has been put on the message queue exactly once, whatever the
\* outcome was.
C5_MarkerExactlyOnce ==
    ppc = "finished" => Cardinality(Markers) = 1

\* C7 (as stated, over every terminate() of start_process): once stdout is
\* closed, terminate is sent to the process only after a grace wait for its
\* natural exit has passed.
C7_ReapingOrder ==
    [][(process.term = "none" /\ process'.term # "none" /\ ~process.stdout)
          => process.grace_expired]_vars

\* C7 (scoped to the reaping code after the end of stdout, app.py lines
\* 557-568 and claude_auth.py lines 304-314): that code sends terminate only
\* after its grace wait has passed without exit; kill is sent only after
\* terminate and a further wait without exit; when the reaping code, or the
\* cleanup of the except block, is done the process has exited.
C7_ReaperOrder ==
    /\ process.term = "reaper" => process.grace_expired
    /\ process.kill => process.term # "none" /\ process.term_wait_expired
    /\ Reaped => process.st = "exited"
    /\ ppc \in {"epm_backoff", "finished"} => process.st # "running"

\* C7 witness: the reaping code went through the whole escalation (grace
\* wait, terminate, wait, kill, wait) and is done
C7_Witness ==
    /\ Reaped
    /\ process.term = "reaper"
    /\ process.kill
    /\ process.st = "exited"

\* C8: at most max_retries launches in one call, and the sleep after the
\* n-th attempt that raised (n = 1, 2) lasts 2^n seconds.
C8_RetryCapAndBackoff ==
    /\ attempts <= max_retries
    /\ \A k \in DOMAIN sleeps :
         /\ sleeps[k].after \in 1..(max_retries - 1)
         /\ sleeps[k].seconds = Pow2(sleeps[k].after)

\* C9: while a recovered authentication error of the output stream awaits
\* its relaunch (the cap not being reached), the retry loop is not left.
C9_AuthRecoveryRelaunches ==
    pending_auth => ppc # "epm_marker"

\* ------------------------------------------------------------------
\* Task logs (v2/services/execution_service.py, add_task_log, get_task_logs)
\* ------------------------------------------------------------------
\* execution_service.py lines 565-566
max_task_logs == 1000

\* the entries a, a+1, ..., b in this order
Entries(a, b) == [k \in 1..(b - a + 1) |-> a + k - 1]

\* the first max_task_logs entries, instead of the last
FirstLogs(list) ==
    SubSeq(list, 1, IF Len(list) < max_task_logs THEN Len(list) ELSE max_task_logs)

\* line 566: list[-1000:]
LastLogs(list) ==
    SubSeq(list,
           IF Len(list) > max_task_logs THEN Len(list) - max_task_logs + 1 ELSE 1,
           Len(list))

\* line 545: self.task_logs.get(task_key, [])
GetTaskLogs == IF task_logs.present THEN task_logs.list ELSE <<>>

\* the other threads that hold the list they loaded at line 562 lose it when
\* the dict entry is replaced by another list
StaleAfterStore(t) ==
    [u \in log_threads |-> IF u # t /\ lpc[u] = "append" THEN TRUE ELSE lstale[u]]

\* add_task_log is called
LogCall(t) ==
    /\ lpc[t] = "idle"
    /\ appended < append_limit
    /\ lpc' = [lpc EXCEPT ![t] = "check"]
    /\ UNCHANGED <<notLogVars, log_threads, task_logs, appended, append_limit,
                   lstale, ltmp>>

\* line 553: if task_key not in self.task_logs
LogCheck(t) ==
    /\ lpc[t] = "check"
    /\ lpc' = [lpc EXCEPT ![t] = IF task_logs.present THEN "load" ELSE "init"]
    /\ UNCHANGED <<notLogVars, log_threads, task_logs, appended, append_limit,
                   lstale, ltmp>>

\* line 554: self.task_logs[task_key] = []
LogInit(t) ==
    /\ lpc[t] = "init"
    /\ task_logs' = [present |-> TRUE, list |-> <<>>]
    /\ lstale' = StaleAfterStore(t)
    /\ lpc' = [lpc EXCEPT ![t] = "load"]
    /\ UNCHANGED <<notLogVars, log_threads, appended, append_limit, ltmp>>

\* line 562, left part: the list self.task_logs[task_key] is loaded
LogLoad(t) ==
    /\ lpc[t] = "load"
    /\ lstale' = [lstale EXCEPT ![t] = FALSE]
    /\ lpc' = [lpc EXCEPT ![t] = "append"]
    /\ UNCHANGED <<notLogVars, log_threads, task_logs, appended, append_limit,
                   ltmp>>

\* line 562: .append(log_entry) on the loaded list
LogAppend(t) ==
    /\ lpc[t] = "append"
    /\ appended' = appended + 1
    /\ task_logs' = IF lstale[t] THEN task_logs
                    ELSE [task_logs EXCEPT !.list = Append(@, appended + 1)]
    /\ lpc' = [lpc EXCEPT ![t] = "len"]
    /\ UNCHANGED <<notLogVars, log_threads, append_limit, lstale, ltmp>>

\* line 565: if len(self.task_logs[task_key]) > 1000
LogLen(t) ==
    /\ lpc[t] = "len"
    /\ lpc' = [lpc EXCEPT ![t] = IF Len(task_logs.list) > max_task_logs
                                 THEN "slice" ELSE "idle"]
    /\ UNCHANGED <<notLogVars, log_threads, task_logs, appended, append_limit,
                   lstale, ltmp>>

\* line 566, right side: self.task_logs[task_key][-1000:]
LogSlice(t) ==
    /\ lpc[t] = "slice"
    /\ ltmp' = [ltmp EXCEPT ![t] = LastLogs(task_logs.list)]
    /\ lpc' = [lpc EXCEPT ![t] = "store"]
    /\ UNCHANGED <<notLogVars, log_threads, task_logs, appended, append_limit,
                   lstale>>

\* line 566, assignment: self.task_logs[task_key] = the slice
LogStore(t) ==
    /\ lpc[t] = "store"
    /\ task_logs' = [task_logs EXCEPT !.list = ltmp[t]]
    /\ ltmp' = [ltmp EXCEPT ![t] = <<>>]
    /\ lstale' = StaleAfterStore(t)
    /\ lpc' = [lpc EXCEPT ![t] = "idle"]
    /\ UNCHANGED <<notLogVars, log_threads, appended, append_limit>>

\* the threads of one execution that log: execute_task and process_output
LogThreads == {"coordinator", "reader"}

\* numbers of entries the task key holds when the concurrent calls start
LogPrefills == {0, max_task_logs - 1}

\* the log part starts with the threads T, the buffer start and the limit
LogStart(T, start, limit) ==
    /\ log_threads = T
    /\ task_logs = start
    /\ appended = Len(start.list)
    /\ append_limit = Len(start.list) + limit
    /\ lpc = [t \in T |-> "idle"]
    /\ lstale = [t \in T |-> FALSE]
    /\ ltmp = [t \in T |-> <<>>]

\* one thread, a fresh ExecutionService
InitLogSeq ==
    /\ IdleExec
    /\ IdleProc
    /\ IdleSubst
    /\ IdleOrch
    /\ IdleAuth
    /\ IdleDaemon
    /\ IdleReduce
    /\ IdleStore
    /\ IdleJob
    /\ IdleSource
    /\ IdleEndpoint
    /\ IdleClock
    /\ IdleTaskLog
    /\ LogStart({"coordinator"}, [present |-> FALSE, list |-> <<>>],
                MaxSeqAppends)

\* two threads, the key missing or holding entries already
InitLog ==
    /\ IdleExec
    /\ IdleProc
    /\ IdleSubst
    /\ IdleOrch
    /\ IdleAuth
    /\ IdleDaemon
    /\ IdleReduce
    /\ IdleStore
    /\ IdleJob
    /\ IdleSource
    /\ IdleEndpoint
    /\ IdleClock
    /\ IdleTaskLog
    /\ \E start \in {[present |-> FALSE, list |-> <<>>]}
                    \cup {[present |-> TRUE, list |-> Entries(1, n)] :
                            n \in LogPrefills} :
         LogStart(LogThreads, start, MaxConcAppends)

NextLog ==
    \/ \E t \in log_threads : LogCall(t)
    \/ \E t \in log_threads : LogCheck(t)
    \/ \E t \in log_threads : LogInit(t)
    \/ \E t \in log_threads : LogLoad(t)
    \/ \E t \in log_threads : LogAppend(t)
    \/ \E t \in log_threads : LogLen(t)
    \/ \E t \in log_threads : LogSlice(t)
    \/ \E t \in log_threads : LogStore(t)

SpecLogSeq == InitLogSeq /\ [][NextLog]_vars

SpecLog == InitLog /\ [][NextLog]_vars

\* no add_task_log call is under way
LogIdle == \A t \in log_threads : lpc[t] = "idle"

\* C11: after any sequence of add_task_log calls get_task_logs returns at
\* most 1000 entries, and they are the most recently appended ones in
\* insertion order: after m appends, the entries max(1, m-999)..m.
C11_RingBuffer ==
    LogIdle =>
        /\ Len(GetTaskLogs) <= max_task_logs
        /\ GetTaskLogs = Entries(IF appended > max_task_logs
                                 THEN appended - max_task_logs + 1 ELSE 1,
                                 appended)

\* C11 witness: more than 1000 entries were appended and the oldest were
\* evicted
C11_Witness ==
    /\ LogIdle
    /\ appended > max_task_logs + 1
    /\ Len(GetTaskLogs) = max_task_logs
    /\ GetTaskLogs[1] = appended - max_task_logs + 1

\* C12: with concurrent callers, once the calls are over every appended
\* entry among the 1000 most recent ones is in the buffer.
C12_NoEntryLost ==
    LogIdle =>
        \A e \in 1..appended :
            e > appended - max_task_logs =>
                \E k \in DOMAIN GetTaskLogs : GetTaskLogs[k] = e

\* ------------------------------------------------------------------
\* Variable substitution (execution_service.py, _substitute_variables)
\* ------------------------------------------------------------------
\* A string is a sequence of items: an item is a piece of text without
\* braces, or a whole {{key}} token.
SubstKeys == {"a", "b"}

\* f'{{{{{var}}}}}'
Token(var) ==
    CASE var = "a" -> "{{a}}"
      [] var = "b" -> "{{b}}"

\* f'[{var}]'
Placeholder(var) ==
    CASE var = "a" -> "[a]"
      [] var = "b" -> "[b]"

Tokens == {Token(k) : k \in SubstKeys}

\* the key of a token
KeyOf(item) == CHOOSE k \in SubstKeys : Token(k) = item

\* line 261: re.findall(r'\{\{(\w+)\}\}', content): the keys of the tokens
\* in the order of their occurrences, repeated ones included
RECURSIVE FindAll(_)
FindAll(content) ==
    IF content = <<>> THEN <<>>
    ELSE (IF Head(content) \in Tokens THEN <<KeyOf(Head(content))>> ELSE <<>>)
         \o FindAll(Tail(content))

\* content.replace(token of var, value): every occurrence
RECURSIVE Replace(_, _, _)
Replace(content, var, value) ==
    IF content = <<>> THEN <<>>
    ELSE (IF Head(content) = Token(var) THEN value ELSE <<Head(content)>>)
         \o Replace(Tail(content), var, value)

\* str(value): a string is itself, an integer is its decimal text
Str(value) ==
    IF value.kind = "str" THEN value.text
    ELSE CASE value.n = 7 -> <<"7">>
           [] value.n = 10 -> <<"10">>

\* line 264: context.get(var, f'[{var}]'), then str() of line 265
ValueOf(var, context) ==
    IF var \in DOMAIN context THEN Str(context[var]) ELSE <<Placeholder(var)>>

\* lines 263-265: the loop over the found variables
RECURSIVE SubstituteLoop(_, _, _)
SubstituteLoop(variables, content, context) ==
    IF variables = <<>> THEN content
    ELSE SubstituteLoop(Tail(variables),
                        Replace(content, Head(variables),
                                ValueOf(Head(variables), context)),
                        context)

\* lines 254-267
SubstituteVariables(content, context) ==
    SubstituteLoop(FindAll(content), content, context)

\* the template and the context of the call are chosen
TemplateItems == {"text"} \cup Tokens

Templates ==
    UNION {[1..n -> TemplateItems] : n \in 0..MaxTemplate}

ContextValues ==
    {[kind |-> "str", text |-> <<"value">>],
     [kind |-> "str", text |-> <<"{{a}}">>],
     [kind |-> "str", text |-> <<"{{b}}">>],
     [kind |-> "int", n |-> 7]}

Contexts ==
    UNION {[D -> ContextValues] : D \in SUBSET SubstKeys}

\* _execute_prompt line 200 calls _substitute_variables
Substitute ==
    /\ tpl_pc = "call"
    /\ tpl_result' = SubstituteVariables(tpl_content, tpl_context)
    /\ tpl_pc' = "done"
    /\ UNCHANGED <<notSubstVars, tpl_content, tpl_context>>

InitSubst ==
    /\ IdleExec
    /\ IdleProc
    /\ IdleLog
    /\ IdleOrch
    /\ IdleAuth
    /\ IdleDaemon
    /\ IdleReduce
    /\ IdleStore
    /\ IdleJob
    /\ IdleSource
    /\ IdleEndpoint
    /\ IdleClock
    /\ IdleTaskLog
    /\ tpl_content \in Templates
    /\ tpl_context \in Contexts
    /\ tpl_result = <<>>
    /\ tpl_pc = "call"

NextSubst == Substitute

SpecSubst == InitSubst /\ [][NextSubst]_vars

\* the template with each {{key}} occurrence of its own replaced, once
RECURSIVE SinglePass(_, _)
SinglePass(content, context) ==
    IF content = <<>> THEN <<>>
    ELSE (IF Head(content) \in Tokens
          THEN ValueOf(KeyOf(Head(content)), context)
          ELSE <<Head(content)>>)
         \o SinglePass(Tail(content), context)

\* a value of the context holds a token whose key occurs in the template
ValueHoldsTemplateToken ==
    \E k \in DOMAIN tpl_context :
        \E j \in DOMAIN Str(tpl_context[k]) :
            /\ Str(tpl_context[k])[j] \in Tokens
            /\ \E m \in DOMAIN tpl_content : tpl_content[m] = Str(tpl_context[k])[j]

\* C13: the returned content is the template with every {{key}} replaced by
\* str(context[key]), or by [key] for a key outside the context, all other
\* text being unchanged.
C13_Substitution ==
    tpl_pc = "done" =>
        /\ Len(tpl_result) = Len(SinglePass(tpl_content, tpl_context))
        /\ \A k \in DOMAIN tpl_result :
              tpl_result[k] = SinglePass(tpl_content, tpl_context)[k]

\* C14: when a substituted value itself holds a {{other}} token whose key
\* also occurs in the template, that token stays in the result as the value
\* brought it: the result is the single pass over the original template.
C14_SinglePass ==
    (tpl_pc = "done" /\ ValueHoldsTemplateToken) =>
        tpl_result = SinglePass(tpl_content, tpl_context)

\* ------------------------------------------------------------------
\* Calls of the prompt orchestrator (v2/services/prompt_orchestrator.py)
\* ------------------------------------------------------------------
\* (agent, capability) pairs: two of the table, one whose agent is in the
\* table but not the capability, two whose agent is not in the table
OrchPairs ==
    {<<"code_architect", "plan">>, <<"code_architect", "analyze">>,
     <<"code_architect", "discuss">>, <<"custom_agent", "plan">>,
     <<"tech_writer", "document">>}

OrchTargets == {"rust", "python"}

OrchAgentFiles == DOMAIN FileRank

OrchTargetFiles == {"01_analyze.md", "02_plan.md", "06_discuss.md"}

\* prompt["path"].exists() for a step of a sequence
PathExists(step, afiles, tfiles) ==
    IF step.type = "agent" THEN step.file \in afiles ELSE step.file \in tfiles

\* lines 344-358: the report for one target
TargetResult(sequence, afiles, tfiles) ==
    [total_prompts   |-> Len(sequence),
     missing_prompts |-> SelectSeq(sequence,
                            LAMBDA st : ~PathExists(st, afiles, tfiles)),
     found_prompts   |-> SelectSeq(sequence,
                            LAMBDA st : PathExists(st, afiles, tfiles))]

\* lines 332-360
ValidateOrchestration(agent, cap, dirExists, afiles, tfiles, targets) ==
    LET report == [t \in {targets[k] : k \in DOMAIN targets} |->
                     TargetResult(GetPromptSequence(agent, cap, dirExists,
                                                    afiles, tfiles[t]),
                                  afiles, tfiles[t])]
    IN  [valid   |-> \A t \in DOMAIN report : report[t].missing_prompts = <<>>,
         targets |-> report]

\* get_prompt_sequence(agent, capability, target) is called
GetSequence ==
    /\ o_pc = "call"
    /\ o_call.op = "get"
    /\ o_result' = GetPromptSequence(o_agent, o_cap, o_dir_exists, o_afiles,
                                     o_tfiles[o_call.target])
    /\ o_pc' = "done"
    /\ UNCHANGED <<notOrchVars, o_agent, o_cap, o_dir_exists, o_afiles, o_tfiles,
                   o_call>>

\* validate_orchestration(agent, capability, targets) is called
Validate ==
    /\ o_pc = "call"
    /\ o_call.op = "validate"
    /\ o_result' = ValidateOrchestration(o_agent, o_cap, o_dir_exists, o_afiles,
                                         o_tfiles, o_call.targets)
    /\ o_pc' = "done"
    /\ UNCHANGED <<notOrchVars, o_agent, o_cap, o_dir_exists, o_afiles, o_tfiles,
                   o_call>>

OrchCalls ==
    {[op |-> "get", target |-> t] : t \in OrchTargets}
    \cup {[op |-> "validate", targets |-> ts] :
            ts \in {<<"rust">>, <<"rust", "python">>}}

InitOrch ==
    /\ IdleExec
    /\ IdleProc
    /\ IdleLog
    /\ IdleSubst
    /\ IdleAuth
    /\ IdleDaemon
    /\ IdleReduce
    /\ IdleStore
    /\ IdleJob
    /\ IdleSource
    /\ IdleEndpoint
    /\ IdleClock
    /\ IdleTaskLog
    /\ \E pair \in OrchPairs : o_agent = pair[1] /\ o_cap = pair[2]
    /\ o_dir_exists \in BOOLEAN
    /\ o_afiles \in SUBSET OrchAgentFiles
    /\ ~o_dir_exists => o_afiles = {}
    /\ o_tfiles \in [OrchTargets -> SUBSET OrchTargetFiles]
    /\ o_call \in OrchCalls
    /\ o_result = <<>>
    /\ o_pc = "call"

NextOrch ==
    \/ GetSequence
    \/ Validate

SpecOrch == InitOrch /\ [][NextOrch]_vars

\* a call of get_prompt_sequence has returned
GotSequence == o_pc = "done" /\ o_call.op = "get"

\* the pair of the call has an entry in the declarative table
Tabled == <<o_agent, o_cap>> \in DOMAIN prompt_sequences

\* the files the fallback mapping gives the capability of the call
MappedFiles == IF o_cap \in DOMAIN target_mapping THEN target_mapping[o_cap] ELSE <<>>

\* the returned steps of one type
StepsOfType(type) == SelectSeq(o_result, LAMBDA st : st.type = type)

\* the agent steps of the result are the *.md files of the directory, sorted
AgentStepsAreSortedDirectory ==
    LET a == StepsOfType("agent")
    IN  /\ {a[x].file : x \in DOMAIN a} = o_afiles
        /\ \A x, y \in DOMAIN a : x < y => FileRank[a[x].file] < FileRank[a[y].file]

\* C15 (as stated): for a pair without table entry the result is the sorted
\* *.md files of the agent directory as agent steps, followed by the target
\* files mapped to the capability as target steps; none for a capability
\* outside the mapping.
C15_FallbackAllMapped ==
    (GotSequence /\ ~Tabled) =>
        /\ o_result = StepsOfType("agent") \o StepsOfType("target")
        /\ AgentStepsAreSortedDirectory
        /\ StepsOfType("target") =
              [n \in DOMAIN MappedFiles |-> [type |-> "target", file |-> MappedFiles[n]]]

\* C15 (amended): for a pair without table entry the result is the sorted
\* *.md files of the agent directory as agent steps, followed by those target
\* files mapped to the capability that exist under prompts/targets/{target},
\* in mapping order; none for a capability outside the mapping.
C15_FallbackExistingMapped ==
    (GotSequence /\ ~Tabled) =>
        LET found == SelectSeq(MappedFiles,
                               LAMBDA f : f \in o_tfiles[o_call.target])
        IN  /\ o_result = StepsOfType("agent") \o StepsOfType("target")
            /\ AgentStepsAreSortedDirectory
            /\ StepsOfType("target") =
                  [n \in DOMAIN found |-> [type |-> "target", file |-> found[n]]]

\* C15 witness: a fallback result with two or more agent steps and a target
\* step, one of the mapped target files being absent
C15_Witness ==
    /\ GotSequence
    /\ ~Tabled
    /\ o_cap = "plan"
    /\ Cardinality(o_afiles) >= 2
    /\ o_tfiles[o_call.target] = {"02_plan.md"}
    /\ Len(o_result) = Cardinality(o_afiles) + 1

\* the call code_architect / plan / rust with every declared file on disk
PlanRustAllPresent ==
    /\ GotSequence
    /\ o_agent = "code_architect"
    /\ o_cap = "plan"
    /\ o_call.target = "rust"
    /\ {"01_analyze_project_structure.md", "02_create_migration_plan.md",
        "03_design_target_architecture.md"} \subseteq o_afiles
    /\ {"01_analyze.md", "02_plan.md"} \subseteq o_tfiles["rust"]

\* C16 (as stated): code_architect / plan / rust with the declared files on
\* disk returns exactly 4 steps of types agent, target, target, agent.
C16_FourSteps ==
    PlanRustAllPresent =>
        /\ Len(o_result) = 4
        /\ [n \in DOMAIN o_result |-> o_result[n].type] =
              <<"agent", "target", "target", "agent">>

\* C16 (amended): code_architect / plan / rust with the declared files on
\* disk returns exactly 5 steps, one per declared file, of types agent, agent,
\* target, target, agent.
C16_FiveSteps ==
    PlanRustAllPresent =>
        o_result = << [type |-> "agent",  file |-> "01_analyze_project_structure.md"],
                      [type |-> "agent",  file |-> "02_create_migration_plan.md"],
                      [type |-> "target", file |-> "01_analyze.md"],
                      [type |-> "target", file |-> "02_plan.md"],
                      [type |-> "agent",  file |-> "03_design_target_architecture.md"] >>

\* C16 witness: the call has returned with every declared file on disk
C16_Witness == PlanRustAllPresent /\ Len(o_result) = 5

\* the declared steps of a table entry, one per file, in declared order
RECURSIVE Flatten(_)
Flatten(sequence) ==
    IF sequence = <<>> THEN <<>>
    ELSE [n \in DOMAIN Head(sequence).prompts |->
             [type |-> Head(sequence).type, file |-> Head(sequence).prompts[n]]]
         \o Flatten(Tail(sequence))

\* C17: for a table-defined pair the result is the declared steps, flattened
\* in declared order, restricted to those whose file exists; every returned
\* step's path exists (the result may be empty).
C17_MissingSkipped ==
    (GotSequence /\ Tabled) =>
        /\ o_result = SelectSeq(Flatten(prompt_sequences[<<o_agent, o_cap>>]),
                          LAMBDA st : PathExists(st, o_afiles, o_tfiles[o_call.target]))
        /\ \A n \in DOMAIN o_result :
              PathExists(o_result[n], o_afiles, o_tfiles[o_call.target])

\* C17 witness: a declared file is missing between two that exist, and the
\* result holds the two in declared order
C17_Witness ==
    /\ GotSequence
    /\ o_agent = "code_architect"
    /\ o_cap = "plan"
    /\ "01_analyze_project_structure.md" \in o_afiles
    /\ "02_create_migration_plan.md" \notin o_afiles
    /\ "03_design_target_architecture.md" \notin o_afiles
    /\ o_tfiles[o_call.target] = {"02_plan.md"}
    /\ o_result = << [type |-> "agent",  file |-> "01_analyze_project_structure.md"],
                     [type |-> "target", file |-> "02_plan.md"] >>

\* a file declared for the pair is absent for a listed target
DeclaredFileAbsent ==
    \E k \in DOMAIN o_call.targets :
        \E st \in {Flatten(prompt_sequences[<<o_agent, o_cap>>])[n] :
                     n \in DOMAIN Flatten(prompt_sequences[<<o_agent, o_cap>>])} :
            ~PathExists(st, o_afiles, o_tfiles[o_call.targets[k]])

\* C18: validate_orchestration reports per listed target the found and the
\* missing prompt files, and valid is false whenever a prompt file declared
\* for the pair is absent on disk for at least one listed target.
C18_ValidFlag ==
    (o_pc = "done" /\ o_call.op = "validate" /\ Tabled /\ DeclaredFileAbsent) =>
        /\ o_result.valid = FALSE
        /\ \E t \in DOMAIN o_result.targets :
              o_result.targets[t].missing_prompts # <<>>

\* ------------------------------------------------------------------
\* ClaudeSessionManagerV2 (v2/services/claude_auth_v2.py); handle_auth_error
\* is the same code in ClaudeSessionManager (claude_auth.py)
\* ------------------------------------------------------------------
MaxClock == 6

\* timedelta(hours=2)
max_session_duration == 2

\* strings are sequences of characters
UpperCase ==
    <<"A", "B", "C", "D", "E", "F", "G", "H", "I", "J", "K", "L", "M", "N", "O", "P", "Q", "R", "S", "T", "U", "V", "W", "X", "Y", "Z">>

LowerCase ==
    <<"a", "b", "c", "d", "e", "f", "g", "h", "i", "j", "k", "l", "m", "n", "o", "p", "q", "r", "s", "t", "u", "v", "w", "x", "y", "z">>

\* str.lower()
ToLower(text) ==
    [n \in DOMAIN text |->
        IF \E k \in DOMAIN UpperCase : UpperCase[k] = text[n]
        THEN LowerCase[CHOOSE k \in DOMAIN UpperCase : UpperCase[k] = text[n]]
        ELSE text[n]]

\* `sub in text`
Contains(text, sub) ==
    \E k \in 0..(Len(text) - Len(sub)) : SubSeq(text, k + 1, k + Len(sub)) = sub

\* the indicators with the bare word auth among them
IndicatorsAndAuth ==
    {<<"a", "u", "t", "h">>,
     <<"4", "0", "1">>,
     <<"u", "n", "a", "u", "t", "h", "o", "r", "i", "z", "e", "d">>,
     <<"a", "u", "t", "h", "e", "n", "t", "i", "c", "a", "t", "i", "o", "n">>,
     <<"a", "u", "t", "h", " ", "f", "a", "i", "l", "e", "d">>,
     <<"i", "n", "v", "a", "l", "i", "d", " ", "a", "p", "i", " ", "k", "e", "y">>,
     <<"e", "x", "p", "i", "r", "e", "d">>,
     <<"f", "o", "r", "b", "i", "d", "d", "e", "n">>}

auth_error_indicators ==
    {<<"4", "0", "1">>,
     <<"u", "n", "a", "u", "t", "h", "o", "r", "i", "z", "e", "d">>,
     <<"a", "u", "t", "h", "e", "n", "t", "i", "c", "a", "t", "i", "o", "n">>,
     <<"a", "u", "t", "h", " ", "f", "a", "i", "l", "e", "d">>,
     <<"i", "n", "v", "a", "l", "i", "d", " ", "a", "p", "i", " ", "k", "e", "y">>,
     <<"e", "x", "p", "i", "r", "e", "d">>,
     <<"f", "o", "r", "b", "i", "d", "d", "e", "n">>}

\* lines 227-228
IsAuthError(error_message) ==
    \E indicator \in auth_error_indicators :
        Contains(ToLower(error_message), indicator)

\* error messages handed to handle_auth_error; `indicator` tells whether the
\* text holds one of the indicators when case is ignored
ErrorMessages ==
    {[text |-> <<"H", "T", "T", "P", " ", "4", "0", "1">>,
      indicator |-> TRUE],
     [text |-> <<"U", "n", "a", "u", "t", "h", "o", "r", "i", "z", "e", "d">>,
      indicator |-> TRUE],
     [text |-> <<"A", "U", "T", "H", " ", "F", "A", "I", "L", "E", "D">>,
      indicator |-> TRUE],
     [text |-> <<"I", "n", "v", "a", "l", "i", "d", " ", "A", "P", "I", " ", "K", "e", "y">>,
      indicator |-> TRUE],
     [text |-> <<"T", "o", "k", "e", "n", " ", "E", "x", "p", "i", "r", "e", "d">>,
      indicator |-> TRUE],
     [text |-> <<"F", "o", "r", "b", "i", "d", "d", "e", "n">>,
      indicator |-> TRUE],
     [text |-> <<"A", "u", "t", "h", "e", "n", "t", "i", "c", "a", "t", "i", "o", "n">>,
      indicator |-> TRUE],
     [text |-> <<"t", "i", "m", "e", "o", "u", "t">>,
      indicator |-> FALSE],
     [text |-> <<"A", "u", "t", "h">>,
      indicator |-> FALSE],
     [text |-> <<"4", "0", " ", "1">>,
      indicator |-> FALSE],
     [text |-> <<>>,
      indicator |-> FALSE],
     [text |-> <<"U", "n", "a", "u", "t", "h", "o", "r", "i", "s", "e", "d">>,
      indicator |-> FALSE],
     [text |-> <<"E", "X", "P", "I", "R", "E">>,
      indicator |-> FALSE]}

\* the messages for which lines 227-228 give is_auth_error = True
DetectedMessages == {m \in ErrorMessages : IsAuthError(m.text)}

\* never due for a refresh
NeverExpired(start, now) == FALSE

\* lines 183-184: the session is older than max_session_duration
SessionExpired(start, now) ==
    \E t \in start : now - t > max_session_duration

\* datetime.now() moves on
AuthTick ==
    /\ auth_now < MaxClock
    /\ auth_now' = auth_now + 1
    /\ UNCHANGED <<notAuthVars, last_refresh, session_start_time, current_session,
                   auth_call>>

\* start_claude_process, lines 179-218; refresh_ok: _refresh_auth does not
\* raise, launch_ok: subprocess.Popen does not raise
StartClaudeProcess(refresh_ok, launch_ok) ==
    LET expired   == SessionExpired(session_start_time, auth_now)
        reset     == IF expired /\ refresh_ok THEN {auth_now} ELSE session_start_time
        launched  == (expired => refresh_ok) /\ launch_ok
        after     == IF launched /\ reset = {} THEN {auth_now} ELSE reset
    IN  /\ last_refresh' = IF expired THEN {auth_now} ELSE last_refresh
        /\ session_start_time' = after
        /\ current_session' = IF launched THEN {auth_now} ELSE current_session
        /\ auth_call' = [op           |-> "start",
                         at           |-> auth_now,
                         outcome      |-> IF launched THEN "launched" ELSE "raised",
                         refreshed    |-> expired,
                         start_before |-> session_start_time,
                         start_after  |-> after]
        /\ UNCHANGED <<notAuthVars, auth_now>>

\* handle_auth_error, lines 220-244; refresh_ok: _refresh_auth does not
\* raise, probe_ok: test_authentication returns True
HandleAuthError(message, refresh_ok, probe_ok) ==
    LET is_auth_error == message \in DetectedMessages
        probed        == is_auth_error /\ refresh_ok
    IN  /\ last_refresh' = IF is_auth_error THEN {auth_now} ELSE last_refresh
        /\ auth_call' = [op             |-> "handle",
                         at             |-> auth_now,
                         message        |-> message,
                         outcome        |-> IF is_auth_error /\ ~refresh_ok
                                            THEN "raised"
                                            ELSE IF probed /\ probe_ok THEN "true"
                                            ELSE "false",
                         refreshed      |-> is_auth_error,
                         probe          |-> IF ~probed THEN "none"
                                            ELSE IF probe_ok THEN "ok" ELSE "failed",
                         refresh_before |-> last_refresh]
        /\ UNCHANGED <<notAuthVars, auth_now, session_start_time, current_session>>

InitAuth ==
    /\ IdleExec
    /\ IdleProc
    /\ IdleLog
    /\ IdleSubst
    /\ IdleOrch
    /\ IdleAuth
    /\ IdleDaemon
    /\ IdleReduce
    /\ IdleStore
    /\ IdleJob
    /\ IdleSource
    /\ IdleEndpoint
    /\ IdleClock
    /\ IdleTaskLog

NextAuth ==
    \/ AuthTick
    \/ \E refresh_ok, launch_ok \in BOOLEAN : StartClaudeProcess(refresh_ok, launch_ok)
    \/ \E message \in ErrorMessages : \E refresh_ok, probe_ok \in BOOLEAN :
          HandleAuthError(message, refresh_ok, probe_ok)

SpecAuth == InitAuth /\ [][NextAuth]_vars

\* C19: handle_auth_error returns true only when the message holds one of the
\* indicators, case ignored, and the probe made after the forced refresh
\* succeeds; for a message without indicator it returns false, makes no
\* refresh (last_refresh unchanged) and runs no probe.
C19_HandleAuthError ==
    auth_call.op = "handle" =>
        /\ auth_call.outcome = "true" =>
              /\ auth_call.message.indicator
              /\ auth_call.refreshed
              /\ last_refresh = {auth_call.at}
              /\ auth_call.probe = "ok"
        /\ ~auth_call.message.indicator =>
              /\ auth_call.outcome = "false"
              /\ ~auth_call.refreshed
              /\ last_refresh = auth_call.refresh_before
              /\ auth_call.probe = "none"

\* C19 witness: an indicator written in capitals is recognised and the probe
\* after the refresh succeeded
C19_Witness ==
    /\ auth_call.op = "handle"
    /\ auth_call.message.text = <<"A", "U", "T", "H", " ", "F", "A", "I", "L", "E", "D">>
    /\ auth_call.outcome = "true"
    /\ auth_call.refresh_before # last_refresh

\* C20: a call of start_claude_process made more than max_session_duration
\* after session_start_time refreshes the credentials and resets
\* session_start_time to the current time before the launch; otherwise a set
\* session_start_time is left unchanged; after every call that launched, the
\* session clock is set and not older than max_session_duration at launch.
C20_SessionClock ==
    (auth_call.op = "start" /\ auth_call.outcome = "launched") =>
        LET before == auth_call.start_before
            late   == \E t \in before : auth_call.at - t > max_session_duration
        IN  /\ late => /\ auth_call.refreshed
                       /\ last_refresh = {auth_call.at}
                       /\ auth_call.start_after = {auth_call.at}
            /\ (~late /\ before # {}) => /\ auth_call.start_after = before
                                         /\ ~auth_call.refreshed
            /\ auth_call.start_after # {}
            /\ session_start_time = auth_call.start_after
            /\ \A t \in auth_call.start_after :
                  auth_call.at - t <= max_session_duration

\* C20 witness: a launch made three hours after the session began, with the
\* refresh made and the session clock reset
C20_Witness ==
    /\ auth_call.op = "start"
    /\ auth_call.outcome = "launched"
    /\ auth_call.start_before = {auth_call.at - 3}
    /\ auth_call.refreshed
    /\ session_start_time = {auth_call.at}

\* ------------------------------------------------------------------
\* The refresh daemon of ClaudeAuthManagerV2 (v2/services/claude_auth_v2.py)
\* ------------------------------------------------------------------
\* refresh_interval: int = 240
refresh_interval == 240

\* time.sleep(30) of the except block
error_wait == 30

\* join(timeout=5); time passes in steps of this length
join_timeout == 5

\* refresh_thread.is_alive()
ThreadAlive == refresh_thread \notin {"none", "exited"}

\* a loop that ends when a refresh raises
DieOnException == [thread |-> "exited", sleep_left |-> 0]

\* lines 97-99: the except block of the loop
OnException == [thread |-> "sleep", sleep_left |-> error_wait]

\* start_refresh_daemon, lines 73-82
StartRefreshDaemon ==
    /\ IF ThreadAlive
       THEN UNCHANGED <<running, refresh_thread, sleep_left, stop_set_flag,
                        after_error>>
       ELSE /\ running' = TRUE
            /\ refresh_thread' = "test"
            /\ sleep_left' = 0
            /\ stop_set_flag' = FALSE
            /\ after_error' = FALSE
    /\ restarted' = (restarted \/ (stop_set_flag /\ daemon_caller = "idle"))
    /\ UNCHANGED <<notDaemonVars, daemon_caller>>

\* stop_refresh_daemon, lines 86-88: the flag is cleared, then the join begins
StopSetFlag ==
    /\ daemon_caller = "idle"
    /\ running' = FALSE
    /\ stop_set_flag' = TRUE
    /\ daemon_caller' = IF refresh_thread # "none" THEN "joining" ELSE "idle"
    /\ restarted' = FALSE
    /\ UNCHANGED <<notDaemonVars, refresh_thread, sleep_left, after_error>>

\* line 88: join returns when the thread has ended or after the timeout
StopJoinReturn ==
    /\ \/ daemon_caller = "joining" /\ ~ThreadAlive
       \/ daemon_caller = "join_timed_out"
    /\ daemon_caller' = "idle"
    /\ UNCHANGED <<notDaemonVars, running, refresh_thread, sleep_left, stop_set_flag,
                   after_error, restarted>>

\* line 93: while self.running
LoopTest ==
    /\ refresh_thread = "test"
    /\ refresh_thread' = IF running THEN "refresh" ELSE "exited"
    /\ UNCHANGED <<notDaemonVars, running, sleep_left, daemon_caller, stop_set_flag,
                   after_error, restarted>>

\* lines 94-99: _refresh_auth returns (ok) or raises, and the sleep begins
LoopRefresh(ok) ==
    /\ refresh_thread = "refresh"
    /\ IF ok
       THEN /\ refresh_thread' = "sleep"
            /\ sleep_left' = refresh_interval
            /\ after_error' = FALSE
       ELSE /\ refresh_thread' = OnException.thread
            /\ sleep_left' = OnException.sleep_left
            /\ after_error' = TRUE
    /\ UNCHANGED <<notDaemonVars, running, daemon_caller, stop_set_flag, restarted>>

\* the time.sleep of the loop is over
LoopWake ==
    /\ refresh_thread = "sleep"
    /\ sleep_left = 0
    /\ refresh_thread' = "test"
    /\ UNCHANGED <<notDaemonVars, running, sleep_left, daemon_caller, stop_set_flag,
                   after_error, restarted>>

\* join_timeout seconds pass
DaemonTick ==
    /\ \/ refresh_thread = "sleep" /\ sleep_left > 0
       \/ daemon_caller = "joining"
    /\ sleep_left' = IF refresh_thread = "sleep" /\ sleep_left > join_timeout
                     THEN sleep_left - join_timeout
                     ELSE IF refresh_thread = "sleep" THEN 0 ELSE sleep_left
    /\ daemon_caller' = IF daemon_caller = "joining" THEN "join_timed_out"
                        ELSE daemon_caller
    /\ UNCHANGED <<notDaemonVars, running, refresh_thread, stop_set_flag, after_error, restarted>>

InitDaemon ==
    /\ IdleExec
    /\ IdleProc
    /\ IdleLog
    /\ IdleSubst
    /\ IdleOrch
    /\ IdleAuth
    /\ IdleDaemon
    /\ IdleReduce
    /\ IdleStore
    /\ IdleJob
    /\ IdleSource
    /\ IdleEndpoint
    /\ IdleClock
    /\ IdleTaskLog

NextDaemon ==
    \/ StartRefreshDaemon
    \/ StopSetFlag
    \/ StopJoinReturn
    \/ LoopTest
    \/ \E ok \in BOOLEAN : LoopRefresh(ok)
    \/ LoopWake
    \/ DaemonTick

\* the loop thread runs and time passes; nobody has to call start or stop
SpecDaemon ==
    /\ InitDaemon
    /\ [][NextDaemon]_vars
    /\ WF_vars(LoopTest)
    /\ WF_vars(\E ok \in BOOLEAN : LoopRefresh(ok))
    /\ WF_vars(LoopWake)
    /\ WF_vars(DaemonTick)

\* the loop is in the wait that follows a refresh that raised
WaitingAfterError == refresh_thread = "sleep" /\ after_error

\* C21: the refresh loop never ends because of an error: while running is
\* true, a refresh that raised is followed, after the shorter wait, by another
\* refresh attempt, and the loop has ended only after stop_refresh_daemon set
\* the flag to false.
C21_LoopSurvivesErrors ==
    /\ [](refresh_thread = "exited" => stop_set_flag /\ ~running)
    /\ [](after_error => sleep_left <= error_wait)
    /\ (WaitingAfterError /\ running) ~> (refresh_thread = "refresh" \/ ~running)

\* C21 witness: the loop is at its next refresh attempt after a refresh that
\* raised, the flag being true
C21_Witness ==
    /\ refresh_thread = "refresh"
    /\ after_error
    /\ running
    /\ ~stop_set_flag

\* ------------------------------------------------------------------
\* The reducers of the CLI's stream-json lines:
\*   "v2"       process_output in ExecutionService._execute_with_claude
\*   "app"      ProcessManager.process_claude_output (app.py)
\*   "enhanced" EnhancedProcessManager.start_process (claude_auth.py)
\* ------------------------------------------------------------------
MaxReduceLines == 2

MaxContent == 2

Reducers == {"v2", "app", "enhanced"}

\* texts of a content entry of subtype text
Texts == {"hello", " hello ", "Claude says", "   ", ""}

\* str.strip()
Strip(text) ==
    CASE text = " hello " -> "hello"
      [] text = "   "     -> ""
      [] OTHER            -> text

\* _clean_text: the product name is replaced
CleanText(text) ==
    IF text = "Claude says" THEN "Cognidev says" ELSE text

\* entries of the content list of an assistant message; name "none" stands
\* for a tool_use entry without the key name
ContentEntries ==
    {[type |-> "text", text |-> t] : t \in Texts}
    \cup {[type |-> "tool_use", name |-> n] : n \in {"Bash", "none"}}
    \cup {[type |-> "image"]}

ContentLists == UNION {[1..n -> ContentEntries] : n \in 0..MaxContent}

\* the JSON objects the CLI prints
Messages ==
    {[type |-> "assistant", content |-> c] : c \in ContentLists}
    \cup {[type |-> "result", subtype |-> "success", duration_ms |-> 1500,
           total_cost_usd |-> 25, num_turns |-> 3],
          [type |-> "result", subtype |-> "error_during_execution",
           message |-> "minor issue"],
          [type |-> "result", subtype |-> "timeout", message |-> "none"],
          [type |-> "system", subtype |-> "init", session_id |-> "0123abcd"],
          [type |-> "tool_use", name |-> "Bash"],
          [type |-> "error", content |-> "401 unauthorized"]}

\* the lines of stdout: blank, not JSON, a JSON value that is no object, or
\* a JSON object
StdoutLines ==
    {[kind |-> "blank"], [kind |-> "scalar"]}
    \cup {[kind |-> "raw", text |-> t] : t \in {"oops", "Warning: retrying"}}
    \cup {[kind |-> "json", message |-> m] : m \in Messages}

\* content.get('name', 'unknown')
ToolName(entry) == IF entry.name = "none" THEN "unknown" ELSE entry.name

\* duration_ms / 1000 shown with two decimals: hundredths of a second
Duration(message) == message.duration_ms \div 10

\* _handle_assistant_message of app.py and claude_auth.py
RECURSIVE HandleAssistantMessage(_)
HandleAssistantMessage(content) ==
    IF content = <<>> THEN <<>>
    ELSE LET entry == Head(content)
             this  == IF entry.type = "text"
                      THEN IF Strip(entry.text) # ""
                              /\ Strip(CleanText(Strip(entry.text))) # ""
                           THEN <<[type |-> "message",
                                   content |-> CleanText(Strip(entry.text))]>>
                           ELSE <<>>
                      ELSE IF entry.type = "tool_use"
                      THEN <<[type |-> "tool", content |-> ToolName(entry)]>>
                      ELSE <<>>
         IN  this \o HandleAssistantMessage(Tail(content))

\* _handle_result_message of app.py and claude_auth.py
HandleResultMessage(message) ==
    IF message.subtype = "success"
    THEN <<[type |-> "success",
            content |-> [duration |-> Duration(message),
                         cost     |-> message.total_cost_usd,
                         turns    |-> message.num_turns]]>>
    ELSE <<[type |-> "error", content |-> [friendly |-> message.subtype]]>>

\* _handle_message of app.py and claude_auth.py
HandleMessage(message) ==
    IF message.type = "assistant" THEN HandleAssistantMessage(message.content)
    ELSE IF message.type = "system" /\ message.subtype = "init"
    THEN <<[type |-> "init", content |-> message.session_id]>>
    ELSE IF message.type = "result" THEN HandleResultMessage(message)
    ELSE <<>>

\* lines 308-314 of process_output: the texts of an assistant message
RECURSIVE AssistantTexts(_)
AssistantTexts(content) ==
    IF content = <<>> THEN <<>>
    ELSE (IF Head(content).type = "text" /\ Strip(Head(content).text) # ""
          THEN <<Strip(Head(content).text)>>
          ELSE <<>>)
         \o AssistantTexts(Tail(content))

\* lines 305-339 of process_output: the events of a JSON object
ProcessOutputEvents(message) ==
    IF message.type = "assistant"
    THEN [n \in DOMAIN AssistantTexts(message.content) |->
             [type |-> "message", content |-> AssistantTexts(message.content)[n]]]
    ELSE IF message.type = "tool_use"
    THEN <<[type |-> "tool", content |-> ToolName(message)]>>
    ELSE IF message.type = "result"
    THEN IF message.subtype = "success"
         THEN <<[type |-> "success",
                 content |-> [duration |-> Duration(message),
                              cost     |-> message.total_cost_usd]]>>
         ELSE <<[type |-> "error", content |-> [message |-> message.message]]>>
    ELSE <<>>

NoEffect == [events |-> <<>>, output |-> <<>>, stopped |-> FALSE]

\* the body of the loop over process.stdout for one line; auth_recovered is
\* the verdict of handle_auth_error, asked by the enhanced reducer only
ReduceLine(impl, line, auth_recovered) ==
    IF line.kind = "blank" THEN NoEffect
    ELSE IF line.kind = "raw"
    THEN IF impl = "v2"
         THEN [NoEffect EXCEPT !.output = <<line.text>>]
         ELSE [NoEffect EXCEPT !.events = <<[type |-> "raw", content |-> line.text]>>]
    ELSE IF line.kind = "scalar"
    THEN \* message.get raises AttributeError, which ends the loop
         IF impl = "enhanced"
         THEN [NoEffect EXCEPT !.stopped = TRUE]
         ELSE [NoEffect EXCEPT !.stopped = TRUE,
                               !.events = <<[type |-> "error",
                                             content |-> [exception |-> "AttributeError"]]>>]
    ELSE IF impl = "v2"
    THEN [NoEffect EXCEPT !.events = ProcessOutputEvents(line.message),
                          !.output = IF line.message.type = "assistant"
                                     THEN AssistantTexts(line.message.content)
                                     ELSE <<>>]
    ELSE IF impl = "enhanced" /\ line.message.type = "error" /\ auth_recovered
    THEN [NoEffect EXCEPT !.stopped = TRUE]
    ELSE [NoEffect EXCEPT !.events = HandleMessage(line.message)]

\* the reducer reads the next line of stdout
ReadLine(line, auth_recovered) ==
    /\ r_impl \in Reducers
    /\ ~r_stopped
    /\ r_read < MaxReduceLines
    /\ r_read' = r_read + 1
    /\ r_line' = line
    /\ r_emitted' = ReduceLine(r_impl, line, auth_recovered).events
    /\ r_output' = ReduceLine(r_impl, line, auth_recovered).output
    /\ r_stopped' = ReduceLine(r_impl, line, auth_recovered).stopped
    /\ UNCHANGED <<notReduceVars, r_impl>>

InitReduce ==
    /\ IdleExec
    /\ IdleProc
    /\ IdleLog
    /\ IdleSubst
    /\ IdleOrch
    /\ IdleAuth
    /\ IdleDaemon
    /\ IdleStore
    /\ IdleJob
    /\ IdleSource
    /\ IdleEndpoint
    /\ IdleClock
    /\ IdleTaskLog
    /\ r_impl \in Reducers
    /\ r_read = 0
    /\ r_line = [kind |-> "none"]
    /\ r_emitted = <<>>
    /\ r_output = <<>>
    /\ r_stopped = FALSE

NextReduce ==
    \E line \in StdoutLines : \E auth_recovered \in BOOLEAN :
        ReadLine(line, auth_recovered)

SpecReduce == InitReduce /\ [][NextReduce]_vars

\* C22: every non-blank stdout line that fails JSON decoding gives exactly
\* one 'raw' event on the message queue carrying that line; a blank line
\* gives no event.
C22_RawNeverDropped ==
    /\ r_line.kind = "raw" =>
          r_emitted = <<[type |-> "raw", content |-> r_line.text]>>
    /\ r_line.kind = "blank" => r_emitted = <<>>

\* the reducer has read an assistant message
ReadAssistant == r_line.kind = "json" /\ r_line.message.type = "assistant"

\* the entries of an assistant message that give an event
EventEntries ==
    SelectSeq(r_line.message.content,
              LAMBDA e : \/ e.type = "tool_use"
                         \/ e.type = "text" /\ Strip(CleanText(Strip(e.text))) # "")

\* C23: for an assistant message the reducer emits, in the order of the
\* content list, one 'message' event per text entry whose filtered text is
\* non-empty, one 'tool' event naming the tool per tool_use entry, and
\* nothing for other entries.
C23_AssistantReduction ==
    ReadAssistant =>
        /\ Len(r_emitted) = Len(EventEntries)
        /\ \A n \in DOMAIN r_emitted :
              IF EventEntries[n].type = "text"
              THEN r_emitted[n].type = "message"
              ELSE /\ r_emitted[n].type = "tool"
                   /\ r_emitted[n].content = ToolName(EventEntries[n])

\* C24: a 'result' message of subtype success gives exactly one 'success'
\* event whose content carries the duration (duration_ms / 1000), the total
\* cost and the number of turns.
C24_SuccessMetrics ==
    (r_line.kind = "json" /\ r_line.message.type = "result"
        /\ r_line.message.subtype = "success") =>
        /\ Len(r_emitted) = 1
        /\ r_emitted[1].type = "success"
        /\ r_emitted[1].content = [duration |-> r_line.message.duration_ms \div 10,
                                    cost     |-> r_line.message.total_cost_usd,
                                    turns    |-> r_line.message.num_turns]

\* C25: a 'result' message of subtype error_during_execution is no failure:
\* the reducer emits no event of type 'error' for it.
C25_PartialSuccess ==
    (r_line.kind = "json" /\ r_line.message.type = "result"
        /\ r_line.message.subtype = "error_during_execution") =>
        \A n \in DOMAIN r_emitted : r_emitted[n].type # "error"

\* ------------------------------------------------------------------
\* Launch failures of start_process (claude_auth.py, app.py)
\* ------------------------------------------------------------------
\* C26: a missing CLI binary is not retried: while every launch of the call
\* has failed (no process was ever started), there was a single launch
\* attempt and no backoff sleep.
C26_MissingBinaryNotRetried ==
    (process.st = "none" /\ attempts >= 1) =>
        /\ attempts = 1
        /\ sleeps = <<>>

\* ------------------------------------------------------------------
\* Output persistence of execute_task
\* ------------------------------------------------------------------
\* the per-step files of the directory for one prompt file
FilesOfStep(file) == {f \in output_dir.files : "step" \in DOMAIN f /\ f.step = file}

\* C27: after execute_task completed a non-empty sequence the output
\* directory holds execution_summary.json, combined_output.md with one
\* section per step result in execution order, and for every step result
\* exactly one per-step file: {prompt_base}_output.md for a successful step,
\* {prompt_base}_error.txt for a failed one, also when its error text is
\* empty.
C27_OutputPersistence ==
    (pc = "done" /\ results # <<>>) =>
        /\ [name |-> "execution_summary.json"] \in output_dir.files
        /\ [name |-> "combined_output.md"] \in output_dir.files
        /\ Len(output_dir.combined) = Len(results)
        /\ \A n \in DOMAIN results :
              /\ output_dir.combined[n].prompt_file = results[n].prompt_file
              /\ FilesOfStep(results[n].prompt_file) =
                    {[step   |-> results[n].prompt_file,
                      suffix |-> IF results[n].status = "success"
                                 THEN "_output.md" ELSE "_error.txt"]}

\* ------------------------------------------------------------------
\* The execution store over several execute_task calls
\* ------------------------------------------------------------------
MaxExecutions == 3
MaxStoreClock == 2

StoreJobs == {"job1", "job2"}

\* lines 419-423; job_id "none" stands for None
GetHistory(logs, job_id) ==
    IF job_id = "none" THEN logs
    ELSE SelectSeq(logs, LAMBDA e : e.job_id = job_id)

\* the wall clock advances by one tick of its resolution
ClockTick ==
    /\ wall_clock < MaxStoreClock
    /\ wall_clock' = wall_clock + 1
    /\ UNCHANGED <<notStoreClockVars, storeVars, in_flight>>

\* line 55: a call starts and makes its execution id from the job, the
\* stage, the task index and the reading of the wall clock
StartExecution(job_id) ==
    /\ Len(execution_logs) + Len(in_flight) < MaxExecutions
    /\ in_flight' = Append(in_flight, <<job_id, "stage1", 0, wall_clock>>)
    /\ UNCHANGED <<notStoreClockVars, storeVars, wall_clock>>

\* lines 150-160: the record of a call, with its execution id
RecordOf(id, status) ==
    [execution_id   |-> id,
     job_id         |-> id[1],
     status         |-> status,
     prompt_results |-> <<PromptResult(1, status = "success", 1, FALSE)>>]

\* lines 150-168 of an execute_task call whose outputs were saved: the record
\* is stored under its execution id and appended to the log
RecordExecution(n, status) ==
    /\ n \in DOMAIN in_flight
    /\ LET id     == in_flight[n]
           record == RecordOf(id, status)
       IN  /\ executions' = [e \in DOMAIN executions \cup {id} |->
                                IF e = id THEN record ELSE executions[e]]
           /\ execution_logs' = StoreExecution(execution_logs, record)
    /\ in_flight' = [m \in 1..(Len(in_flight) - 1) |->
                        IF m < n THEN in_flight[m] ELSE in_flight[m + 1]]
    /\ UNCHANGED <<notStoreClockVars, output_dir, history, wall_clock>>

\* get_execution_history(job_id) is called
GetExecutionHistory(job_id) ==
    /\ history' = [job_id   |-> job_id,
                   upto     |-> Len(execution_logs),
                   returned |-> GetHistory(execution_logs, job_id)]
    /\ UNCHANGED <<notStoreVars, output_dir, executions, execution_logs>>

\* lines 425-427; NoRecord for None
GetExecutionDetails(execs, id) ==
    IF id \in DOMAIN execs THEN execs[id] ELSE NoRecord

InitStore ==
    /\ IdleExec
    /\ IdleProc
    /\ IdleLog
    /\ IdleSubst
    /\ IdleOrch
    /\ IdleAuth
    /\ IdleDaemon
    /\ IdleReduce
    /\ IdleJob
    /\ IdleSource
    /\ IdleEndpoint
    /\ IdleClock
    /\ IdleTaskLog
    /\ output_dir = NoOutput
    /\ executions = <<>>
    /\ execution_logs = <<>>
    /\ history = [job_id |-> "none", upto |-> 0, returned |-> <<>>]

NextStore ==
    \/ ClockTick
    \/ \E job_id \in StoreJobs : StartExecution(job_id)
    \/ \E n \in 1..MaxExecutions : \E status \in {"success", "error"} :
          RecordExecution(n, status)
    \/ \E job_id \in StoreJobs \cup {"none"} : GetExecutionHistory(job_id)

SpecStore == InitStore /\ [][NextStore]_vars

\* the records that were stored when the last history call was made
StoredAtCall == SubSeq(execution_logs, 1, history.upto)

MaxStages == 3
MaxJobCalls == 3

StageStatuses == {"pending", "in_progress", "completed"}

\* create_job, lines 96-104, with the stages of _create_workflow_stages:
\* every stage pending with progress 0
NewJob ==
    [exists        |-> TRUE,
     id            |-> "job1",
     name          |-> "job",
     progress      |-> 0,
     current_stage |-> 0,
     stages        |-> [n \in 1..MaxStages |->
                           [id |-> n, status |-> "pending", progress |-> 0]]]

\* line 334
allowed_fields ==
    {"name", "description", "status", "progress", "current_stage", "metadata",
     "config", "estimated_completion", "actual_completion", "stages",
     "source_name", "target_name"}

\* lines 373-374: int((completed_stages / len(job['stages'])) * 100); for
\* the stage counts modelled the float product is exact
StageProgress(stages) ==
    (Cardinality({n \in DOMAIN stages : stages[n].status = "completed"}) * 100)
        \div Len(stages)

\* the stage lists a caller can pass: the job's stages with any statuses
StageLists ==
    {[n \in 1..MaxStages |-> [id |-> n, status |-> st[n], progress |-> 0]] :
        st \in [1..MaxStages -> StageStatuses]}

\* the update dictionaries passed to update_job
JobUpdates ==
    {[name |-> "renamed"], [id |-> "job2"], [progress |-> 0], [progress |-> 150]}
        \cup {[stages |-> ss] : ss \in StageLists}

\* the update dictionaries passed to update_stage
StageUpdates ==
    {[status |-> st] : st \in StageStatuses}
        \cup {[progress |-> 100], [note |-> "x"]}

\* lines 325-346
UpdateJob(job_id, updates) ==
    /\ job_calls < MaxJobCalls
    /\ job_calls' = job_calls + 1
    /\ IF job_id # job.id
       THEN /\ job_ret' = "none"
            /\ job' = job
       ELSE /\ job' = [f \in DOMAIN job |->
                          IF f \in allowed_fields /\ f \in DOMAIN updates
                          THEN updates[f] ELSE job[f]]
            /\ job_ret' = "job"
    /\ UNCHANGED notJobVars

\* lines 357-364: the index of the first stage with that id, 0 if none
StageIndex(stages, stage_id) ==
    IF \E n \in DOMAIN stages : stages[n].id = stage_id
    THEN CHOOSE n \in DOMAIN stages :
            /\ stages[n].id = stage_id
            /\ \A m \in 1..(n - 1) : stages[m].id # stage_id
    ELSE 0

\* lines 348-384
UpdateStage(job_id, stage_id, updates) ==
    /\ job_calls < MaxJobCalls
    /\ job_calls' = job_calls + 1
    /\ LET x == StageIndex(job.stages, stage_id)
       IN  IF job_id # job.id \/ x = 0
           THEN /\ job_ret' = "none"
                /\ job' = job
           ELSE LET updated == [f \in DOMAIN job.stages[x] |->
                                  IF f \in DOMAIN updates THEN updates[f]
                                  ELSE job.stages[x][f]]
                    stages == [job.stages EXCEPT ![x] = updated]
                IN  /\ job' = [job EXCEPT
                                  !.stages = stages,
                                  !.progress = StageProgress(stages),
                                  !.current_stage =
                                      IF updated.status = "completed" /\ x < Len(stages)
                                      THEN x ELSE @]
                    /\ job_ret' = "job"
    /\ UNCHANGED notJobVars

InitJobs ==
    /\ IdleExec
    /\ IdleProc
    /\ IdleLog
    /\ IdleSubst
    /\ IdleOrch
    /\ IdleAuth
    /\ IdleDaemon
    /\ IdleReduce
    /\ IdleStore
    /\ IdleSource
    /\ IdleEndpoint
    /\ IdleClock
    /\ IdleTaskLog
    /\ job = NewJob
    /\ job_ret = "none"
    /\ job_calls = 0

NextJobs ==
    \/ \E job_id \in {"job1", "job2"} : \E updates \in JobUpdates :
          UpdateJob(job_id, updates)
    \/ \E job_id \in {"job1", "job2"} : \E stage_id \in 0..MaxStages :
          \E updates \in StageUpdates : UpdateStage(job_id, stage_id, updates)

SpecJobs == InitJobs /\ [][NextJobs]_vars

\* C29: after any sequence of update_stage and update_job calls the job's
\* progress is floor(100 * completed stages / stages), within 0..100.
C29_ProgressFromStages ==
    /\ job.progress = (100 * Cardinality({n \in DOMAIN job.stages :
                                             job.stages[n].status = "completed"}))
                          \div Len(job.stages)
    /\ job.progress \in 0..100

\* ------------------------------------------------------------------
\* The registry of sources (v2/services/sources_service.py)
\* ------------------------------------------------------------------
MaxSourceCalls == 4

\* source ids are the numbers of the calls that made them (uuid4 in the
\* code: never repeated); 0 is an id that was never given out
SourceIds == 0..MaxSourceCalls

SourceTypes == {"github", "local"}

\* what dict.get returns for a missing key
NoSource == [id |-> 0]

\* line 215: self.metadata['sources'].get(source_id)
GetSourceOf(srcs, source_id) ==
    IF source_id \in DOMAIN srcs THEN srcs[source_id] ELSE NoSource

\* lines 232-233: the sources sorted by created_at, newest first
RECURSIVE NewestFirst(_)
NewestFirst(set) ==
    IF set = {} THEN <<>>
    ELSE LET newest == CHOOSE x \in set : \A y \in set : y.created_at <= x.created_at
         IN  <<newest>> \o NewestFirst(set \ {newest})

\* lines 217-235; source_type "none" stands for None
ListSourcesOf(srcs, source_type) ==
    NewestFirst({srcs[x] : x \in {y \in DOMAIN srcs :
                                     source_type = "none" \/ srcs[y].type = source_type}})

\* line 259: del self.metadata['sources'][source_id]
RemoveSource(srcs, source_id) == [x \in DOMAIN srcs \ {source_id} |-> srcs[x]]

\* add_github_repo (lines 63-138) and add_local_folder (lines 140-211) once
\* the clone or copy is made: the entry is put into the metadata, then saved;
\* if saving raises, the directory is removed again and the call raises
AddSource(source_type, save_ok) ==
    /\ src_calls < MaxSourceCalls
    /\ src_calls' = src_calls + 1
    /\ LET id   == src_calls + 1
           data == [id |-> id, type |-> source_type, created_at |-> id]
       IN  /\ sources' = [x \in DOMAIN sources \cup {id} |->
                             IF x = id THEN data ELSE sources[x]]
           /\ IF save_ok
              THEN /\ metadata_file' = sources'
                   /\ source_files' = source_files \cup {id}
                   /\ src_ret' = [op |-> "add", id |-> id, value |-> TRUE]
              ELSE /\ metadata_file' = metadata_file
                   /\ source_files' = source_files
                   /\ src_ret' = [op |-> "add", id |-> id, value |-> "raised"]
    /\ UNCHANGED notSourceVars

\* lines 213-215
GetSource(source_id) ==
    /\ src_calls < MaxSourceCalls
    /\ src_calls' = src_calls + 1
    /\ src_ret' = [op |-> "get", id |-> source_id,
                   value |-> GetSourceOf(sources, source_id)]
    /\ UNCHANGED <<notSourceVars, sources, source_files, metadata_file>>

\* lines 217-235
ListSources(source_type) ==
    /\ src_calls < MaxSourceCalls
    /\ src_calls' = src_calls + 1
    /\ src_ret' = [op |-> "list", id |-> source_type,
                   value |-> ListSourcesOf(sources, source_type)]
    /\ UNCHANGED <<notSourceVars, sources, source_files, metadata_file>>

\* lines 237-267: rmtree_ok and save_ok say whether shutil.rmtree and
\* _save_metadata return or raise
DeleteSource(source_id, rmtree_ok, save_ok) ==
    /\ src_calls < MaxSourceCalls
    /\ src_calls' = src_calls + 1
    /\ IF GetSourceOf(sources, source_id) = NoSource
       THEN /\ src_ret' = [op |-> "delete", id |-> source_id, value |-> FALSE]
            /\ UNCHANGED <<sources, source_files, metadata_file>>
       ELSE IF source_id \in source_files /\ ~rmtree_ok
       THEN /\ src_ret' = [op |-> "delete", id |-> source_id, value |-> FALSE]
            /\ UNCHANGED <<sources, source_files, metadata_file>>
       ELSE /\ source_files' = source_files \ {source_id}
            /\ sources' = RemoveSource(sources, source_id)
            /\ IF save_ok
               THEN /\ metadata_file' = sources'
                    /\ src_ret' = [op |-> "delete", id |-> source_id, value |-> TRUE]
               ELSE /\ metadata_file' = metadata_file
                    /\ src_ret' = [op |-> "delete", id |-> source_id, value |-> FALSE]
    /\ UNCHANGED notSourceVars

InitSources ==
    /\ IdleExec
    /\ IdleProc
    /\ IdleLog
    /\ IdleSubst
    /\ IdleOrch
    /\ IdleAuth
    /\ IdleDaemon
    /\ IdleReduce
    /\ IdleStore
    /\ IdleJob
    /\ IdleSource
    /\ IdleEndpoint
    /\ IdleClock
    /\ IdleTaskLog

NextSources ==
    \/ \E source_type \in SourceTypes : \E save_ok \in BOOLEAN :
          AddSource(source_type, save_ok)
    \/ \E source_id \in SourceIds : GetSource(source_id)
    \/ \E source_type \in SourceTypes \cup {"none"} : ListSources(source_type)
    \/ \E source_id \in SourceIds : \E rmtree_ok, save_ok \in BOOLEAN :
          DeleteSource(source_id, rmtree_ok, save_ok)

SpecSources == InitSources /\ [][NextSources]_vars

\* the step is a delete_source call
DeleteStep == src_calls' # src_calls /\ src_ret'.op = "delete"

\* C30: delete_source of a registered id returns True and afterwards
\* get_source(id) returns None and list_sources does not contain it;
\* delete_source of an unknown id returns False and leaves the registered
\* sources unchanged.
C30_DeleteSource ==
    [][DeleteStep =>
          IF src_ret'.id \in DOMAIN sources
          THEN /\ src_ret'.value = TRUE
               /\ GetSourceOf(sources', src_ret'.id) = NoSource
               /\ \A n \in DOMAIN ListSourcesOf(sources', "none") :
                     ListSourcesOf(sources', "none")[n].id # src_ret'.id
          ELSE /\ src_ret'.value = FALSE
               /\ sources' = sources]_vars

\* ------------------------------------------------------------------
\* The task log and the store over one execute_task call
\* (v2/services/execution_service.py)
\* ------------------------------------------------------------------
MaxSteps == 2
MaxReaderLines == 2

Entry(kind, step) == [kind |-> kind, step |-> step]

\* add_task_log, lines 547-566, the key being present
AddTaskLog(log, entry) == LastLogs(Append(log, entry))

\* the task log cleared whether or not prompts were found
ClearedLogs(early, log) == <<>>

\* lines 69-107: the early returns of lines 75 and 85 leave the task log as
\* it is, line 107 clears it
LogsAfterResolve(early, log) == IF early THEN log ELSE <<>>

\* what an earlier call of the same task left behind
OldResults ==
    <<[prompt_file |-> 1, status |-> "success", output |-> TRUE, error |-> FALSE]>>

OldRecord == ExecutionRecord("job1", "success", OldResults)

\* line 55: the ids of the earlier call and of this one
OldExecutionId == <<"job1", "stage1", 0, 0>>

ThisExecutionId == <<"job1", "stage1", 0, 1>>

\* lines 55-118: the sequence is resolved; early return, or the log is
\* cleared and the three opening entries are added
TlStart ==
    /\ tl_pc = "start"
    /\ \E n \in 0..MaxSteps :
         /\ tl_log' = IF n = 0 THEN LogsAfterResolve(TRUE, tl_log)
                      ELSE AddTaskLog(AddTaskLog(AddTaskLog(
                               LogsAfterResolve(FALSE, tl_log),
                               Entry("starting", 0)), Entry("agent", 0)),
                               Entry("found", 0))
         /\ tl_n' = n
         /\ tl_i' = IF n = 0 THEN 0 ELSE 1
         /\ tl_pc' = IF n = 0 THEN "done" ELSE "executing"
         /\ tl_ret' = IF n = 0 THEN "early" ELSE tl_ret
         /\ tl_reader' = [j \in 1..n |-> "none"]
         /\ tl_lines' = [j \in 1..n |-> [read |-> 0, output |-> 0]]
    /\ UNCHANGED <<notTlVars, tl_status, tl_results, tl_timed_out>>

\* lines 120-138 and 194-291: the start entry of the step, then
\* _execute_prompt up to the start of the subprocess and of its output thread
TlExecutePrompt ==
    /\ tl_pc = "executing"
    /\ \E started \in BOOLEAN :
         IF started
         THEN /\ tl_log' = AddTaskLog(AddTaskLog(AddTaskLog(tl_log,
                              Entry("executing", tl_i)), Entry("workdir", tl_i)),
                              Entry("claude_start", tl_i))
              /\ tl_reader' = [tl_reader EXCEPT ![tl_i] = "running"]
              /\ tl_pc' = "poll"
         ELSE /\ tl_log' = AddTaskLog(tl_log, Entry("executing", tl_i))
              /\ tl_reader' = tl_reader
              /\ tl_pc' = "result"
    /\ tl_timed_out' = FALSE
    /\ UNCHANGED <<notTlVars, tl_n, tl_i, tl_status, tl_lines, tl_results, tl_ret>>

\* lines 299-345: the output thread of step j handles one stdout line
TlReaderLine(j, kind) ==
    /\ tl_reader[j] = "running"
    /\ tl_lines[j].read < MaxReaderLines
    /\ tl_lines' = [tl_lines EXCEPT
                       ![j].read = @ + 1,
                       ![j].output = IF kind \in {"assistant", "raw"} THEN @ + 1 ELSE @]
    /\ tl_log' = IF kind = "assistant" THEN AddTaskLog(tl_log, Entry("claude", j))
                 ELSE IF kind = "tool_use" THEN AddTaskLog(tl_log, Entry("tool", j))
                 ELSE tl_log
    /\ UNCHANGED <<notTlVars, tl_pc, tl_n, tl_i, tl_status, tl_reader, tl_results,
                   tl_timed_out, tl_ret>>

\* lines 346-350: the output thread ends and puts the None marker
TlReaderEnd(j) ==
    /\ tl_reader[j] = "running"
    /\ tl_reader' = [tl_reader EXCEPT ![j] = "done"]
    /\ UNCHANGED <<notTlVars, tl_pc, tl_n, tl_i, tl_status, tl_log, tl_lines,
                   tl_results, tl_timed_out, tl_ret>>

\* lines 373-376: the poll loop gets the None marker
TlPollNone ==
    /\ tl_pc = "poll"
    /\ tl_reader[tl_i] = "done"
    /\ tl_pc' = "join"
    /\ UNCHANGED <<notTlVars, tl_n, tl_i, tl_status, tl_log, tl_reader, tl_lines,
                   tl_results, tl_timed_out, tl_ret>>

\* lines 368-371: the 300 seconds are over
TlPollTimeout ==
    /\ tl_pc = "poll"
    /\ tl_timed_out' = TRUE
    /\ tl_pc' = "join"
    /\ UNCHANGED <<notTlVars, tl_n, tl_i, tl_status, tl_log, tl_reader, tl_lines,
                   tl_results, tl_ret>>

\* lines 383-410: join(timeout=5) returns with the thread ended or not, the
\* return code is polled and stderr read
TlJoin ==
    /\ tl_pc = "join"
    /\ tl_pc' = "result"
    /\ UNCHANGED <<notTlVars, tl_n, tl_i, tl_status, tl_log, tl_reader, tl_lines,
                   tl_results, tl_timed_out, tl_ret>>

\* lines 139-148 with 237-252 and 397-410: the result is appended and its
\* completion or failure entry added
TlResult ==
    /\ tl_pc = "result"
    /\ \E exit_zero, stderr_output \in BOOLEAN :
         LET success == StepSuccess(IF exit_zero THEN {0} ELSE {1},
                                    tl_lines[tl_i].output)
             result  == IF tl_reader[tl_i] = "none" THEN ExceptionResult(tl_i)
                        ELSE PromptResult(tl_i, success, tl_lines[tl_i].output,
                                          stderr_output)
         IN  /\ tl_results' = Append(tl_results, result)
             /\ IF StopOnError(result)
                THEN /\ tl_status' = "error"
                     /\ tl_log' = AddTaskLog(tl_log, Entry("failed", tl_i))
                     /\ tl_pc' = "save"
                     /\ tl_i' = tl_i
                ELSE /\ tl_status' = tl_status
                     /\ tl_log' = AddTaskLog(tl_log, Entry("completed", tl_i))
                     /\ tl_pc' = IF tl_i = tl_n THEN "save" ELSE "executing"
                     /\ tl_i' = IF tl_i = tl_n THEN tl_i ELSE tl_i + 1
    /\ UNCHANGED <<notTlVars, tl_n, tl_reader, tl_lines, tl_timed_out, tl_ret>>

\* lines 150-178: the outputs are saved, the record stored, the final entry
\* added; a failing write raises out of execute_task
TlSave ==
    /\ tl_pc = "save"
    /\ \E saved \in BOOLEAN :
         IF saved
         THEN /\ output_dir' = OutputAfter(tl_results, Len(WriteOrder(tl_results)))
              /\ executions' =
                    [x \in DOMAIN executions \cup {ThisExecutionId} |->
                        IF x = ThisExecutionId
                        THEN ExecutionRecord("job1", tl_status, tl_results)
                        ELSE executions[x]]
              /\ execution_logs' =
                    StoreExecution(execution_logs,
                                   ExecutionRecord("job1", tl_status, tl_results))
              /\ tl_log' = AddTaskLog(tl_log,
                              IF tl_status = "success" THEN Entry("task_ok", 0)
                              ELSE Entry("task_failed", 0))
              /\ tl_pc' = "done"
              /\ tl_ret' = "record"
         ELSE /\ tl_pc' = "done"
              /\ tl_ret' = "raised"
              /\ UNCHANGED <<output_dir, executions, execution_logs, tl_log>>
    /\ UNCHANGED <<notTlStoreVars, history, tl_n, tl_i, tl_status, tl_reader,
                   tl_lines, tl_results, tl_timed_out>>

\* the task log, the output directory and the store before the call: as an
\* earlier call of the task left them, or as __init__ did (lines 27-29)
LeftBehind(prior) ==
    IF prior
    THEN /\ tl_log = <<Entry("task_ok", 0)>>
         /\ output_dir = OutputAfter(OldResults, Len(WriteOrder(OldResults)))
         /\ executions = (OldExecutionId :> OldRecord)
         /\ execution_logs = <<OldRecord>>
    ELSE /\ tl_log = <<>>
         /\ output_dir = NoOutput
         /\ executions = <<>>
         /\ execution_logs = <<>>

InitTaskLog ==
    /\ IdleExec
    /\ IdleProc
    /\ IdleLog
    /\ IdleSubst
    /\ IdleOrch
    /\ IdleAuth
    /\ IdleDaemon
    /\ IdleReduce
    /\ IdleJob
    /\ IdleSource
    /\ IdleEndpoint
    /\ IdleClock
    /\ \E prior \in BOOLEAN : LeftBehind(prior)
    /\ history = <<>>
    /\ tl_pc = "start"
    /\ tl_n = 0
    /\ tl_i = 0
    /\ tl_status = "success"
    /\ tl_reader = <<>>
    /\ tl_lines = <<>>
    /\ tl_results = <<>>
    /\ tl_timed_out = FALSE
    /\ tl_ret = "none"

NextTaskLog ==
    \/ TlStart
    \/ TlExecutePrompt
    \/ \E j \in 1..MaxSteps : \E kind \in LineKinds :
          j \in DOMAIN tl_reader /\ TlReaderLine(j, kind)
    \/ \E j \in 1..MaxSteps : j \in DOMAIN tl_reader /\ TlReaderEnd(j)
    \/ TlPollNone
    \/ TlPollTimeout
    \/ TlJoin
    \/ TlResult
    \/ TlSave

SpecTaskLog == InitTaskLog /\ [][NextTaskLog]_vars

\* the positions of an entry in the task log
PositionsOf(kind, step) ==
    {n \in DOMAIN tl_log : tl_log[n] = Entry(kind, step)}

\* the positions of the completion or failure entry of a step
ResultPositions(step) ==
    PositionsOf("completed", step) \cup PositionsOf("failed", step)

\* C31: every executed step has its 'Executing prompt' entry before its
\* subprocess starts, its completion or failure entry after its result is
\* known and before the start entry of the next step, and the last entry of
\* the call is the task-level success or failure entry.
C31_LogOrdering ==
    /\ \A j \in DOMAIN tl_reader :
          (tl_reader[j] # "none" \/ j \in DOMAIN tl_results) =>
             /\ PositionsOf("executing", j) # {}
             /\ \A n \in PositionsOf("claude", j) \cup PositionsOf("tool", j) :
                   \A m \in PositionsOf("executing", j) : m < n
    /\ \A j \in DOMAIN tl_results :
          /\ ResultPositions(j) # {}
          /\ \A n \in ResultPositions(j) :
                /\ \A m \in PositionsOf("executing", j) : m < n
                /\ \A m \in PositionsOf("executing", j + 1) : n < m
    /\ tl_ret = "record" =>
          tl_log[Len(tl_log)].kind \in {"task_ok", "task_failed"}

\* ------------------------------------------------------------------
\* The shape of the stored execution records
\* ------------------------------------------------------------------
\* lines 451-461: the counts of execution_summary.json
SummaryData(rs) ==
    [total_prompts      |-> Len(rs),
     successful_prompts |-> Len(SelectSeq(rs, LAMBDA r : r.status = "success")),
     failed_prompts     |-> Len(SelectSeq(rs, LAMBDA r : r.status = "error"))]

\* the records held by the history list and by the id-indexed map
StoredRecords ==
    {execution_logs[n] : n \in DOMAIN execution_logs}
        \cup {executions[x] : x \in DOMAIN executions}

\* C32: in every stored execution record prompt_results is non-empty, at
\* most one result has status 'error' and it is the last, the record's status
\* is 'error' exactly when its last result is, and the summary counts satisfy
\* total_prompts = successful_prompts + failed_prompts.
C32_RecordShape ==
    \A record \in StoredRecords :
       LET rs == record.prompt_results
       IN  /\ rs # <<>>
           /\ \A n \in DOMAIN rs : rs[n].status = "error" => n = Len(rs)
           /\ record.status = "error" <=> rs[Len(rs)].status = "error"
           /\ SummaryData(rs).total_prompts =
                 SummaryData(rs).successful_prompts + SummaryData(rs).failed_prompts

\* C32 witness: a record is stored whose second and last result failed
C32_Witness ==
    /\ execution_logs # <<>>
    /\ Len(execution_logs[1].prompt_results) = 2
    /\ execution_logs[1].prompt_results[1].status = "success"
    /\ execution_logs[1].prompt_results[2].status = "error"
    /\ execution_logs[1].status = "error"

\* ------------------------------------------------------------------
\* Step success and the exit code
\* ------------------------------------------------------------------
\* the subprocess of the current step has written a line that counts as
\* output (lines 310-312 and 341-344), read by the output thread or not yet
WroteOutputLine ==
    \/ output_lines > 0
    \/ \E n \in DOMAIN pipe : pipe[n] \in {"assistant", "raw"}

\* C33: a step whose subprocess wrote at least one output line and exited
\* with code 0 is reported as success, in every interleaving of the stdout
\* end-of-stream, the output thread's completion marker and the exit.
C33_ExitZeroIsSuccess ==
    [][(pc = "stderr" /\ pc' # "stderr" /\ proc[i].rc = {0} /\ WroteOutputLine)
          => results'[Len(results')].status = "success"]_vars

\* ------------------------------------------------------------------
\* The early return of execute_task
\* ------------------------------------------------------------------
\* C34: when execute_task returns early because no prompts were found,
\* executions, execution_logs, the task log and the output files are as they
\* were before the call, and the returned execution id is retrievable neither
\* through get_execution_details nor through get_execution_history.
C34_EarlyReturnLeavesStore ==
    tl_ret = "early" =>
       /\ \E prior \in BOOLEAN : LeftBehind(prior)
       /\ ThisExecutionId \notin DOMAIN executions
       /\ Len(GetHistory(execution_logs, "job1")) = Cardinality(DOMAIN executions)

\* C34 witness: the call returned early with an earlier call's record, log
\* entry and files in place
C34_Witness ==
    /\ tl_ret = "early"
    /\ tl_pc = "done"
    /\ execution_logs = <<OldRecord>>
    /\ tl_log # <<>>
    /\ output_dir # NoOutput

\* ------------------------------------------------------------------
\* Execution ids
\* ------------------------------------------------------------------
\* C35: execution ids are unique among stored records: the id-indexed map
\* and the history list hold the same records, so every record of
\* get_execution_history() is what get_execution_details returns for its id.
C35_IdsUnique ==
    /\ Cardinality(DOMAIN executions) = Len(execution_logs)
    /\ \A n \in DOMAIN GetHistory(execution_logs, "none") :
          GetExecutionDetails(executions,
                              GetHistory(execution_logs, "none")[n].execution_id)
             = GetHistory(execution_logs, "none")[n]

\* ------------------------------------------------------------------
\* The per-step files of a sequence
\* ------------------------------------------------------------------
\* the results of a sequence every step of which succeeded with output
\* (lines 237-243)
AllSucceeded(sequence) ==
    [n \in DOMAIN sequence |-> PromptResult(sequence[n].file, TRUE, 1, FALSE)]

\* C36: no per-step file is overwritten by another step of the execution:
\* the per-step files are pairwise distinct, one for each result with a
\* non-empty output or error, also when an agent step and a target step have
\* the same prompt file name.
C36_NoStepFileOverwritten ==
    (o_pc = "done" /\ o_call.op = "get") =>
       LET files == StepFiles(AllSucceeded(o_result))
       IN  /\ Len(files) = Len(o_result)
           /\ \A m, n \in DOMAIN files : m # n => files[m] # files[n]

\* ------------------------------------------------------------------
\* Restarting the refresh daemon
\* ------------------------------------------------------------------
\* C37: after stop_refresh_daemon returned and start_refresh_daemon was then
\* called, a refresh loop is running with the running flag true, in every
\* interleaving with the old loop thread.
C37_RestartRuns == restarted => (running /\ ThreadAlive)

\* ------------------------------------------------------------------
\* The execute endpoint (v2/app.py) and the jobs file
\* ------------------------------------------------------------------
MaxRequests == 2
MaxTasks == 2

\* jobs_service.py lines 337-339 with updates = the request's whole job: the
\* stored stages are replaced by the stages of the request's copy
UpdateJobStages(stored, copy) == copy

\* app.py lines 1037-1049: the request loads the job and finds its task
EpGetJob(r) ==
    /\ requests[r].pc = "start"
    /\ requests' = [requests EXCEPT ![r].pc = "execute", ![r].job = jobs_file]
    /\ UNCHANGED <<notEpVars, jobs_file>>

\* app.py lines 1124-1130: execution_service.execute_task returns and the
\* task's status is set in the request's copy of the job
EpExecute(r, success) ==
    /\ requests[r].pc = "execute"
    /\ requests' = [requests EXCEPT
                       ![r].pc = "update",
                       ![r].success = success,
                       ![r].job = [@ EXCEPT ![requests[r].task] =
                                      IF success THEN "completed" ELSE "failed"]]
    /\ UNCHANGED <<notEpVars, jobs_file>>

\* app.py line 1133 and jobs_service.py lines 325-346: the job is saved
EpUpdateJob(r) ==
    /\ requests[r].pc = "update"
    /\ jobs_file' = UpdateJobStages(jobs_file, requests[r].job)
    /\ requests' = [requests EXCEPT ![r].pc = "done"]
    /\ UNCHANGED notEpVars

InitEndpoint ==
    /\ IdleExec
    /\ IdleProc
    /\ IdleLog
    /\ IdleSubst
    /\ IdleOrch
    /\ IdleAuth
    /\ IdleDaemon
    /\ IdleReduce
    /\ IdleStore
    /\ IdleJob
    /\ IdleSource
    /\ IdleTaskLog
    /\ IdleClock
    /\ jobs_file \in [1..MaxTasks -> {"pending", "completed", "failed"}]
    /\ \E tasks \in [1..MaxRequests -> 1..MaxTasks] :
         requests = [r \in 1..MaxRequests |->
                        [pc |-> "start", task |-> tasks[r], job |-> <<>>,
                         success |-> FALSE]]

NextEndpoint ==
    \/ \E r \in 1..MaxRequests : EpGetJob(r)
    \/ \E r \in 1..MaxRequests : \E success \in BOOLEAN : EpExecute(r, success)
    \/ \E r \in 1..MaxRequests : EpUpdateJob(r)

SpecEndpoint == InitEndpoint /\ [][NextEndpoint]_vars

\* C38: when two requests run two different tasks of the job concurrently,
\* after both finish the persisted job shows each task as 'completed' if its
\* execution succeeded and 'failed' otherwise.
C38_NoLostStatus ==
    (/\ \A r \in DOMAIN requests : requests[r].pc = "done"
     /\ \A q, r \in DOMAIN requests : q # r => requests[q].task # requests[r].task)
    => \A r \in DOMAIN requests :
          jobs_file[requests[r].task] =
             IF requests[r].success THEN "completed" ELSE "failed"

====
